---------------------------- MODULE Spec2Model ----------------------------
(***************************************************************************)
(* State-machine model of pwr-stateful-vida (python): the Merkle store     *)
(* (utils/merkle_tree.py), the ledger service (database_service.py), the   *)
(* transaction processor and the consensus driver (main.py, handler.py).   *)
(*                                                                         *)
(* Byte strings are sequences of naturals below 256.  Python's None and    *)
(* the empty byte string are both falsy in every test the code makes on a  *)
(* hash, so an absent hash is the empty sequence.                          *)
(***************************************************************************)
EXTENDS Integers, Sequences, FiniteSets, TLC

\* ------------------------------------------------------------------ bounds

\* Number of store operations a behaviour of Spec performs.
MaxOps == 6

\* Guard on the recursion of update_node_hash (the code recurses once per
\* ancestor; a longer chain than this can only be a cycle of parent links).
MaxChain == 8

\* Starts of the application and transactions handled in a behaviour of
\* SpecLedger.
MaxSessions == 2
MaxTxns == 2

\* Calls of the ledger service and requests to the endpoint in a behaviour
\* of SpecService.
MaxServiceCalls == 3
\* threads that call MerkleTree(name) for one name
MaxOpeners == 3

\* Starts of the application and transactions handled in a behaviour of
\* SpecConsensus, the highest block the feed reaches and the most peers the
\* application is configured with.
MaxRoundSessions == 1
MaxRoundTxns == 1
MaxBlock == 2
MaxPeers == 4

\* ------------------------------------------------------------- byte helpers

None == << >>

\* Keys and values the store operations are exercised with.
Keys == { <<97>>, <<98>>, <<99>> }
Values == { <<49>>, <<50>> }

\* A local variable: the value is computed once and the rest of the function
\* reads it.
Bind(x, F(_)) == F(x)

\* Python dicts as functions: d[k] = v, del d[k], {}, d.get(k).
With(f, k, v) == [x \in (DOMAIN f) \cup {k} |-> IF x = k THEN v ELSE f[x]]
Without(f, k) == [x \in (DOMAIN f) \ {k} |-> f[x]]
Empty == [x \in {} |-> None]
Get(f, k) == IF k \in DOMAIN f THEN f[k] ELSE None

\* bytes.hex(): two hexadecimal digits per byte, high digit first.
Hex(b) == [i \in 1..(2 * Len(b)) |->
              IF i % 2 = 1 THEN b[(i + 1) \div 2] \div 16 ELSE b[i \div 2] % 16]

\* bytes.fromhex().
FromHex(h) == [i \in 1..(Len(h) \div 2) |-> h[2 * i - 1] * 16 + h[2 * i]]

\* struct.pack('<i', n) for 0 <= n < 2^31: four bytes, little-endian.
PackI(n) == << n % 256, (n \div 256) % 256, (n \div 65536) % 256,
               (n \div 16777216) % 256 >>

\* The same bytes read high byte first ('>i'): what a reader of the metadata
\* with the other byte order would load.
UnpackI_BigEndian(b) == b[4] + 256 * b[3] + 65536 * b[2] + 16777216 * b[1]

\* struct.unpack('<i', b)[0] on such bytes.
UnpackI(b) == b[1] + 256 * b[2] + 65536 * b[3] + 16777216 * b[4]

\* ------------------------------------------------------------------ hasher

\* Keccak-256 of a byte string, taken as injective: the digest of s is s
\* behind its length (two bytes, high byte first), so that the digests
\* form a prefix-free code, as the fixed-length digests of the code do (a
\* concatenation of two digests determines both).
keccak_256(s) == << Len(s) \div 256, Len(s) % 256 >> \o s

keccak_256_two_inputs(a, b) == keccak_256(a \o b)

calculate_leaf_hash(key, data) == keccak_256_two_inputs(key, data)

\* The hash of an internal node with one child taken over that child alone,
\* not over the child twice.
calculate_hash_static_single(l, r) ==
    keccak_256_two_inputs(IF l # None THEN l ELSE r, IF l # None THEN r ELSE None)

\* --------------------------------------------------------------------- Node

Node(h, l, r, p) == [hash |-> h, left |-> l, right |-> r, parent |-> p,
                     node_hash_to_remove_from_db |-> None]

\* The result of a lookup that finds nothing.
NoNode == Node(None, None, None, None)

new_leaf(h) == Node(h, None, None, None)

calculate_hash_static(l, r) ==
    keccak_256_two_inputs(IF l # None THEN l ELSE r, IF r # None THEN r ELSE l)

new_internal(l, r) == Node(calculate_hash_static(l, r), l, r, None)

to_dict(n) == [hash |-> Hex(n.hash), left |-> Hex(n.left), right |-> Hex(n.right),
               parent |-> Hex(n.parent),
               node_hash_to_remove_from_db |-> Hex(n.node_hash_to_remove_from_db)]

from_dict(d) == [hash |-> FromHex(d.hash), left |-> FromHex(d.left),
                 right |-> FromHex(d.right), parent |-> FromHex(d.parent),
                 node_hash_to_remove_from_db |->
                     FromHex(d.node_hash_to_remove_from_db)]

\* -------------------------------------------------------------------- state

VARIABLES
    \* MerkleTree fields (merkle_tree.py 258-270)
    root_hash, num_leaves, depth, hanging_nodes, nodes_cache, key_data_cache,
    has_unsaved_changes, closed,
    \* _open_trees: whether the tree's name is registered (merkle_tree.py 228)
    open_trees,
    \* FileDB: metadata.json, nodes.json, keydata.json (merkle_tree.py 119-132)
    db,
    \* what the last operation was and how it ended
    last_op,
    \* number of operations performed
    nops,
    \* observable store state just before the first put of a run of unsaved puts
    base,
    \* observable store state when the store was last closed
    at_close,
    \* the puts made since the last revert: key -> value
    puts,
    \* the keys of the leaves in the order of their first insertion: now, and
    \* when the database was last written
    order,
    \* which entry point runs: "main" (main.py) or "handler" (handler.py)
    impl,
    \* len(peers_to_check_root_hash_with)
    peers,
    \* whether the application runs (between run() and shutdown())
    running,
    \* subscription.get_latest_checked_block(): the feed's watermark
    latest_checked_block,
    \* monitor_blocks' local last_checked
    last_checked,
    \* the locals of check_root_hash_validity_and_save in the round under way
    \* or last ended, and what the round did
    round,
    \* starts of the application and transactions still to come
    sessions, ntx,
    \* where a call of transfer() stands between its two set_balance calls,
    \* and the roots the store had between whole transactions
    transfer_pc,
    \* where each thread that calls MerkleTree(name) stands in the constructor
    opening

appVars == << impl, peers, running, latest_checked_block, last_checked, round,
             sessions, ntx, transfer_pc, opening >>

storeVars == << root_hash, num_leaves, depth, hanging_nodes, nodes_cache,
                key_data_cache, has_unsaved_changes, closed, open_trees, db >>

\* The tree's fields and its database as one record, for the operators that
\* thread them; err is the message of the exception the operation raised
\* ("" for none).
Mem == [root_hash |-> root_hash, num_leaves |-> num_leaves, depth |-> depth,
        hanging_nodes |-> hanging_nodes, nodes_cache |-> nodes_cache,
        key_data_cache |-> key_data_cache,
        has_unsaved_changes |-> has_unsaved_changes, db |-> db, err |-> ""]

Raise(T, msg) == [T EXCEPT !.err = msg]

\* FileDB(path) on a directory without files: three empty JSON objects.
EmptyDB == [metadata |-> [rootHash |-> None, numLeaves |-> None, depth |-> None,
                          hangingNode |-> Empty],
            nodes |-> Empty, keydata |-> Empty]

\* ------------------------------------------------------------- Merkle store

\* FileDB.get_node / get_keydata / get_metadata
get_node(d, h) == IF Hex(h) \in DOMAIN d.nodes THEN from_dict(d.nodes[Hex(h)])
                  ELSE NoNode

get_keydata(d, key) == IF Hex(key) \in DOMAIN d.keydata
                       THEN FromHex(d.keydata[Hex(key)]) ELSE None

\* _get_node_by_hash: the state after the lookup (a node found in the
\* database is put in the cache); the node is then nodes_cache[h] if found.
get_node_by_hash(T, h) ==
    IF h # None /\ h \notin DOMAIN T.nodes_cache /\ get_node(T.db, h) # NoNode
    THEN [T EXCEPT !.nodes_cache = With(@, h, get_node(T.db, h))]
    ELSE T

Found(T, h) == h # None /\ h \in DOMAIN T.nodes_cache

\* get_data that reads the database alone.
get_data_in_durable_only(T, key) == get_keydata(T.db, key)

\* get_data: dirty cache first, then the database.
get_data_in(T, key) == IF key \in DOMAIN T.key_data_cache
                       THEN T.key_data_cache[key] ELSE get_keydata(T.db, key)

\* "Update children's parent references": one child of a re-hashed node.
set_child_parent(T, c, new_hash) ==
    IF c = None THEN T
    ELSE Bind(get_node_by_hash(T, c), LAMBDA T1 :
           IF Found(T1, c)
           THEN [T1 EXCEPT !.nodes_cache[c].parent = new_hash]
           ELSE T1)

\* Node.update_leaf; NoNode stands for the raised error.
update_leaf_of(pn, old, new) ==
    IF pn.left # None /\ pn.left = old THEN [pn EXCEPT !.left = new]
    ELSE IF pn.right # None /\ pn.right = old THEN [pn EXCEPT !.right = new]
    ELSE NoNode

\* Node.add_leaf; NoNode stands for the raised error.
node_add_leaf(pn, h) ==
    IF pn.left = None THEN [pn EXCEPT !.left = h]
    ELSE IF pn.right = None THEN [pn EXCEPT !.right = h]
    ELSE NoNode

\* _update_node_hash(node, new_hash), node being nodes_cache[h].  Nodes of
\* different levels have different hashes, so at most one level of the
\* hanging-node map matches and the loop's break changes nothing.
RECURSIVE update_node_hash(_, _, _, _)
update_node_hash(T, h, new_hash, fuel) ==
    IF T.err # "" THEN T
    ELSE IF fuel = 0 THEN Raise(T, "RecursionError")
    ELSE
    Bind(T.nodes_cache[h], LAMBDA node :
    Bind(node.hash, LAMBDA old :
    Bind([node EXCEPT
            !.node_hash_to_remove_from_db = IF @ = None THEN node.hash ELSE @,
            !.hash = new_hash], LAMBDA n1 :
    Bind([T EXCEPT !.hanging_nodes =
                      [l \in DOMAIN T.hanging_nodes |->
                         IF T.hanging_nodes[l] = old THEN new_hash
                         ELSE T.hanging_nodes[l]],
                   !.nodes_cache = With(Without(@, old), new_hash, n1)],
         LAMBDA T1 :
    Bind(n1.left = None /\ n1.right = None, LAMBDA is_leaf :
    Bind(n1.parent = None, LAMBDA is_root :
    Bind(IF is_root
         THEN set_child_parent(
                set_child_parent([T1 EXCEPT !.root_hash = new_hash],
                                 n1.left, new_hash),
                n1.right, new_hash)
         ELSE IF ~is_leaf
         THEN set_child_parent(set_child_parent(T1, n1.left, new_hash),
                               n1.right, new_hash)
         ELSE T1, LAMBDA T2 :
      IF is_root THEN T2
      ELSE
    Bind(get_node_by_hash(T2, n1.parent), LAMBDA T3 :
      IF ~Found(T3, n1.parent) THEN T3
      ELSE
    Bind(update_leaf_of(T3.nodes_cache[n1.parent], old, new_hash), LAMBDA pn1 :
      IF pn1 = NoNode
      THEN Raise(T3, "Old hash not found among this node's children")
      ELSE update_node_hash([T3 EXCEPT !.nodes_cache[n1.parent] = pn1],
                            n1.parent,
                            calculate_hash_static(pn1.left, pn1.right),
                            fuel - 1))))))))))

\* _add_node(level, node): node is a new node that is not in the cache yet.
RECURSIVE add_node(_, _, _)
add_node(T, level, node) ==
    IF T.err # "" THEN T
    ELSE
    Bind(IF level > T.depth THEN [T EXCEPT !.depth = level] ELSE T, LAMBDA T0 :
    Bind(Get(T0.hanging_nodes, level), LAMBDA hanging_node_hash :
      IF hanging_node_hash = None
      THEN \* no hanging node at this level
           Bind([T0 EXCEPT !.hanging_nodes = With(@, level, node.hash)],
                LAMBDA T6 :
             IF level >= T6.depth
             THEN \* the new root; the closing _update_node_in_cache(node)
                  [T6 EXCEPT !.root_hash = node.hash,
                             !.nodes_cache = With(@, node.hash, node)]
             ELSE Bind(new_internal(node.hash, None), LAMBDA single :
                    add_node([T6 EXCEPT !.nodes_cache =
                                With(@, node.hash,
                                     [node EXCEPT !.parent = single.hash])],
                             level + 1, single)))
      ELSE
    Bind(get_node_by_hash(T0, hanging_node_hash), LAMBDA T1 :
      IF ~Found(T1, hanging_node_hash)
      THEN \* nothing is linked; the closing _update_node_in_cache(node)
           [T1 EXCEPT !.nodes_cache = With(@, node.hash, node)]
      ELSE
    Bind(T1.nodes_cache[hanging_node_hash], LAMBDA hanging_node :
    Bind([T1 EXCEPT !.hanging_nodes = Without(@, level)], LAMBDA T2 :
      IF hanging_node.parent = None
      THEN \* the hanging node is a root: a new parent over both nodes
           Bind(new_internal(hanging_node_hash, node.hash), LAMBDA parent :
             add_node([T2 EXCEPT !.nodes_cache =
                         With([@ EXCEPT ![hanging_node_hash].parent =
                                            parent.hash],
                              node.hash,
                              [node EXCEPT !.parent = parent.hash])],
                      level + 1, parent))
      ELSE \* the hanging node has a parent: the new node joins that parent
    Bind(get_node_by_hash(T2, hanging_node.parent), LAMBDA T4 :
      IF ~Found(T4, hanging_node.parent)
      THEN Raise(T4, "Parent node not found")
      ELSE
    Bind(node_add_leaf(T4.nodes_cache[hanging_node.parent], node.hash),
         LAMBDA pn1 :
      IF pn1 = NoNode
      THEN Raise(T4, "Node already has both left and right children")
      ELSE update_node_hash(
             [T4 EXCEPT !.nodes_cache =
                With([@ EXCEPT ![hanging_node.parent] = pn1],
                     node.hash,
                     [node EXCEPT !.parent = hanging_node.parent])],
             hanging_node.parent,
             calculate_hash_static(pn1.left, pn1.right),
             MaxChain))))))))

\* The body of _add_leaf when the tree has leaves: the leaf is linked to the
\* hanging leaf of level 0, or becomes it.
link_leaf(T, h, leaf_node) ==
    Bind(Get(T.hanging_nodes, 0), LAMBDA hanging_leaf_hash :
      IF hanging_leaf_hash = None
      THEN Bind(new_internal(h, None), LAMBDA single :
             add_node([T EXCEPT !.hanging_nodes = With(@, 0, h),
                                !.nodes_cache =
                                  With(@, h, [leaf_node EXCEPT
                                                !.parent = single.hash])],
                      1, single))
      ELSE
    Bind(get_node_by_hash(T, hanging_leaf_hash), LAMBDA T1 :
      IF ~Found(T1, hanging_leaf_hash)
      THEN [T1 EXCEPT !.nodes_cache = With(@, h, leaf_node)]
      ELSE
    Bind(T1.nodes_cache[hanging_leaf_hash], LAMBDA hanging_leaf :
    Bind([T1 EXCEPT !.hanging_nodes = Without(@, 0)], LAMBDA T2 :
      IF hanging_leaf.parent = None
      THEN Bind(new_internal(hanging_leaf_hash, h), LAMBDA parent :
             add_node([T2 EXCEPT !.nodes_cache =
                         With([@ EXCEPT ![hanging_leaf_hash].parent =
                                            parent.hash],
                              h, [leaf_node EXCEPT !.parent = parent.hash])],
                      1, parent))
      ELSE
    Bind(get_node_by_hash(T2, hanging_leaf.parent), LAMBDA T4 :
      IF ~Found(T4, hanging_leaf.parent)
      THEN Raise(T4, "Parent node not found")
      ELSE
    Bind(node_add_leaf(T4.nodes_cache[hanging_leaf.parent], h), LAMBDA pn1 :
      IF pn1 = NoNode
      THEN Raise(T4, "Node already has both left and right children")
      ELSE update_node_hash(
             [T4 EXCEPT !.nodes_cache =
                With([@ EXCEPT ![hanging_leaf.parent] = pn1],
                     h, [leaf_node EXCEPT !.parent = hanging_leaf.parent])],
             hanging_leaf.parent,
             calculate_hash_static(pn1.left, pn1.right),
             MaxChain)))))))

\* _add_leaf(leaf_node), leaf_node = Node.new_leaf(h).
add_leaf(T, h) ==
    IF T.num_leaves = 0
    THEN [T EXCEPT !.hanging_nodes = With(@, 0, h), !.root_hash = h,
                   !.num_leaves = @ + 1,
                   !.nodes_cache = With(@, h, new_leaf(h))]
    ELSE Bind(link_leaf(T, h, new_leaf(h)), LAMBDA linked :
           IF linked.err # "" THEN linked
           ELSE [linked EXCEPT !.num_leaves = @ + 1])

\* _update_leaf(old_leaf_hash, new_leaf_hash)
update_leaf(T, old_leaf_hash, new_leaf_hash) ==
    IF old_leaf_hash = new_leaf_hash
    THEN Raise(T, "Old and new leaf hashes cannot be the same")
    ELSE Bind(get_node_by_hash(T, old_leaf_hash), LAMBDA T1 :
           IF ~Found(T1, old_leaf_hash) THEN Raise(T1, "Leaf not found")
           ELSE update_node_hash(T1, old_leaf_hash, new_leaf_hash, MaxChain))

\* add_or_update_data without its tests on the key and the data.
add_or_update_data_unvalidated(T, key, data) ==
    Bind(get_data_in(T, key), LAMBDA existing_data :
    Bind(IF existing_data # None THEN calculate_leaf_hash(key, existing_data)
         ELSE None, LAMBDA old_leaf_hash :
    Bind(calculate_leaf_hash(key, data), LAMBDA new_leaf_hash :
      IF old_leaf_hash # None /\ old_leaf_hash = new_leaf_hash THEN T
      ELSE
    Bind([T EXCEPT !.key_data_cache = With(@, key, data),
                   !.has_unsaved_changes = TRUE], LAMBDA T1 :
      IF old_leaf_hash = None THEN add_leaf(T1, new_leaf_hash)
      ELSE update_leaf(T1, old_leaf_hash, new_leaf_hash)))))

\* add_or_update_data without the return on an unchanged leaf hash.
add_or_update_data_always_writes(T, key, data) ==
    IF key = << >> THEN Raise(T, "Key cannot be empty")
    ELSE IF data = << >> THEN Raise(T, "Data cannot be empty")
    ELSE
    Bind(get_data_in(T, key), LAMBDA existing_data :
    Bind(IF existing_data # None THEN calculate_leaf_hash(key, existing_data)
         ELSE None, LAMBDA old_leaf_hash :
    Bind(calculate_leaf_hash(key, data), LAMBDA new_leaf_hash :
    Bind([T EXCEPT !.key_data_cache = With(@, key, data),
                   !.has_unsaved_changes = TRUE], LAMBDA T1 :
      IF old_leaf_hash = None THEN add_leaf(T1, new_leaf_hash)
      ELSE update_leaf(T1, old_leaf_hash, new_leaf_hash)))))

\* add_or_update_data(key, data) on an open tree.
add_or_update_data(T, key, data) ==
    IF key = << >> THEN Raise(T, "Key cannot be empty")
    ELSE IF data = << >> THEN Raise(T, "Data cannot be empty")
    ELSE
    Bind(get_data_in(T, key), LAMBDA existing_data :
    Bind(IF existing_data # None THEN calculate_leaf_hash(key, existing_data)
         ELSE None, LAMBDA old_leaf_hash :
    Bind(calculate_leaf_hash(key, data), LAMBDA new_leaf_hash :
      IF old_leaf_hash # None /\ old_leaf_hash = new_leaf_hash THEN T
      ELSE
    Bind([T EXCEPT !.key_data_cache = With(@, key, data),
                   !.has_unsaved_changes = TRUE], LAMBDA T1 :
      IF old_leaf_hash = None THEN add_leaf(T1, new_leaf_hash)
      ELSE update_leaf(T1, old_leaf_hash, new_leaf_hash)))))

\* FileDB.get_metadata / put_metadata: a value is stored as its hex string,
\* None for an empty one, and read back with fromhex.
put_metadata(value) == Hex(value)
get_metadata(stored) == FromHex(stored)

\* _load_metadata that leaves depth at 0.
load_metadata_without_depth(d) ==
    LET num_leaves_bytes == get_metadata(d.metadata.numLeaves)
        present == { i \in { 0 } : i \in DOMAIN d.metadata.hangingNode
                                   /\ get_metadata(d.metadata.hangingNode[i]) # None }
    IN  [root_hash |-> get_metadata(d.metadata.rootHash),
         num_leaves |-> IF num_leaves_bytes # None THEN UnpackI(num_leaves_bytes)
                        ELSE 0,
         depth |-> 0,
         hanging_nodes |-> [i \in present |-> get_metadata(d.metadata.hangingNode[i])]]

\* _load_metadata: root, num_leaves, depth and hangingNode0..hangingNode<depth>.
load_metadata(d) ==
    LET num_leaves_bytes == get_metadata(d.metadata.numLeaves)
        depth_bytes == get_metadata(d.metadata.depth)
        dep == IF depth_bytes # None THEN UnpackI(depth_bytes) ELSE 0
        present == { i \in 0..dep : i \in DOMAIN d.metadata.hangingNode
                                    /\ get_metadata(d.metadata.hangingNode[i]) # None }
    IN  [root_hash |-> get_metadata(d.metadata.rootHash),
         num_leaves |-> IF num_leaves_bytes # None THEN UnpackI(num_leaves_bytes)
                        ELSE 0,
         depth |-> dep,
         hanging_nodes |-> [i \in present |-> get_metadata(d.metadata.hangingNode[i])]]

\* The nodes namespace after the node loop of flush_to_disk: every cached node
\* is written under its hash and the record under its
\* node_hash_to_remove_from_db is deleted.  A node whose own hash is the one
\* to remove is written and then deleted.  FlushOrderFree states that no
\* cached node's hash is another cached node's hash to remove, so the
\* order in which the loop visits the cache does not matter.
flushed_nodes(d, cache) ==
    LET written == { Hex(cache[k].hash) : k \in DOMAIN cache }
        removed == { Hex(cache[k].node_hash_to_remove_from_db) :
                       k \in { x \in DOMAIN cache :
                                 cache[x].node_hash_to_remove_from_db # None } }
        byHash(hx) == CHOOSE k \in DOMAIN cache : Hex(cache[k].hash) = hx
    IN  [hx \in ((DOMAIN d.nodes) \cup written) \ removed |->
            IF hx \in written THEN to_dict(cache[byHash(hx)]) ELSE d.nodes[hx]]

\* The database after flush_to_disk on a tree with unsaved changes: metadata
\* (no hangingNode<level> entry is ever deleted), nodes, then the dirty
\* key data.
flushed_db(T) ==
    [metadata |->
        [rootHash |-> put_metadata(T.root_hash),
         numLeaves |-> put_metadata(PackI(T.num_leaves)),
         depth |-> put_metadata(PackI(T.depth)),
         hangingNode |->
            [l \in (DOMAIN T.db.metadata.hangingNode) \cup (DOMAIN T.hanging_nodes) |->
                IF l \in DOMAIN T.hanging_nodes
                THEN put_metadata(T.hanging_nodes[l])
                ELSE T.db.metadata.hangingNode[l]]],
     nodes |-> flushed_nodes(T.db, T.nodes_cache),
     keydata |->
        [hk \in (DOMAIN T.db.keydata) \cup { Hex(k) : k \in DOMAIN T.key_data_cache } |->
            IF \E k \in DOMAIN T.key_data_cache : Hex(k) = hk
            THEN Hex(T.key_data_cache[CHOOSE k \in DOMAIN T.key_data_cache :
                                         Hex(k) = hk])
            ELSE T.db.keydata[hk]]]

\* flush_to_disk(): nothing without unsaved changes; else the database is
\* written and both caches are cleared.
flush_to_disk(T) ==
    IF ~T.has_unsaved_changes THEN T
    ELSE [T EXCEPT !.db = flushed_db(T), !.nodes_cache = Empty,
                   !.key_data_cache = Empty, !.has_unsaved_changes = FALSE]

\* The tree after _load_metadata over database T.db with empty caches: the
\* end of __init__ and of revert_unsaved_changes.
reloaded(T) ==
    LET m == load_metadata(T.db)
    IN  [T EXCEPT !.root_hash = m.root_hash, !.num_leaves = m.num_leaves,
                  !.depth = m.depth, !.hanging_nodes = m.hanging_nodes,
                  !.nodes_cache = Empty, !.key_data_cache = Empty,
                  !.has_unsaved_changes = FALSE]

\* contains_key(key) for a key that is not empty: the database alone is
\* read.
contains_key(T, key) == Hex(key) \in DOMAIN T.db.keydata

\* get_root_hash_saved_on_disk()
get_root_hash_saved_on_disk(T) == get_metadata(T.db.metadata.rootHash)

\* revert_unsaved_changes that writes the unsaved changes in place of
\* dropping them.
revert_unsaved_changes_writing(T) == flush_to_disk(T)

\* revert_unsaved_changes(): nothing without unsaved changes.
revert_unsaved_changes(T) == IF ~T.has_unsaved_changes THEN T ELSE reloaded(T)

\* ----------------------------------------------------------- ledger service

\* b"lastCheckedBlock" and "blockRootHash_" in ASCII
LAST_CHECKED_BLOCK_KEY ==
    << 108, 97, 115, 116, 67, 104, 101, 99, 107, 101, 100, 66, 108, 111, 99, 107 >>

BLOCK_ROOT_PREFIX ==
    << 98, 108, 111, 99, 107, 82, 111, 111, 116, 72, 97, 115, 104, 95 >>

\* n.to_bytes((n.bit_length() + 7) // 8, 'big'): minimal big-endian, no byte
\* at all for zero.
RECURSIVE to_bytes(_)
to_bytes(n) == IF n = 0 THEN << >> ELSE to_bytes(n \div 256) \o << n % 256 >>

\* int.from_bytes(b, 'big')
RECURSIVE from_bytes(_)
from_bytes(b) == IF b = << >> THEN 0
                 ELSE from_bytes(SubSeq(b, 1, Len(b) - 1)) * 256 + b[Len(b)]

\* struct.pack('>Q', n) and struct.unpack('>Q', b)[0] for 0 <= n < 2^31:
\* eight bytes, big-endian, the high four of them zero.
PackQ(n) == << 0, 0, 0, 0, (n \div 16777216) % 256, (n \div 65536) % 256,
               (n \div 256) % 256, n % 256 >>

UnpackQ(b) == b[5] * 16777216 + b[6] * 65536 + b[7] * 256 + b[8]

\* str(n).encode('utf-8') for n >= 0
RECURSIVE str(_)
str(n) == IF n < 10 THEN << 48 + n >> ELSE str(n \div 10) \o << 48 + (n % 10) >>

block_root_key(block_number) == BLOCK_ROOT_PREFIX \o str(block_number)

get_root_hash(T) == T.root_hash

get_balance(T, address) ==
    LET data == get_data_in(T, address)
    IN  IF data = None THEN 0 ELSE from_bytes(data)

\* set_balance without the single zero byte for a balance of zero.
set_balance_zero_as_no_byte(T, address, balance) ==
    IF balance < 0 THEN Raise(T, "Balance must be non-negative")
    ELSE add_or_update_data(T, address, to_bytes(balance))

\* set_balance: a negative balance is refused before the tree is touched; an
\* error of the tree is raised on as DatabaseServiceError with the tree as
\* the failed call left it.
set_balance(T, address, balance) ==
    IF balance < 0 THEN Raise(T, "Balance must be non-negative")
    ELSE add_or_update_data(T, address,
                            IF balance = 0 THEN << 0 >> ELSE to_bytes(balance))

\* transfer without its test on the sender's balance: the debit is attempted
\* whatever the balance.
transfer_unguarded(T, sender, receiver, amount) ==
    Bind(get_balance(T, sender), LAMBDA sender_balance :
    Bind(set_balance(T, sender, sender_balance - amount), LAMBDA T1 :
      IF T1.err # "" THEN [tree |-> T1, ret |-> "DatabaseServiceError"]
      ELSE
    Bind(get_balance(T1, receiver), LAMBDA receiver_balance :
    Bind(set_balance(T1, receiver, receiver_balance + amount), LAMBDA T2 :
      IF T2.err # "" THEN [tree |-> T2, ret |-> "DatabaseServiceError"]
      ELSE [tree |-> T2, ret |-> "True"]))))

\* transfer: the tree after the call and what the call returned ("True",
\* "False", or "DatabaseServiceError" when it raised).
transfer(T, sender, receiver, amount) ==
    Bind(get_balance(T, sender), LAMBDA sender_balance :
      IF sender_balance < amount THEN [tree |-> T, ret |-> "False"]
      ELSE
    Bind(set_balance(T, sender, sender_balance - amount), LAMBDA T1 :
      IF T1.err # "" THEN [tree |-> T1, ret |-> "DatabaseServiceError"]
      ELSE
    Bind(get_balance(T1, receiver), LAMBDA receiver_balance :
    Bind(set_balance(T1, receiver, receiver_balance + amount), LAMBDA T2 :
      IF T2.err # "" THEN [tree |-> T2, ret |-> "DatabaseServiceError"]
      ELSE [tree |-> T2, ret |-> "True"]))))

\* transfer up to its first write: the balance test and the debit of the
\* sender.  ret is "False" when the balance is too small, "" when the call
\* goes on to the credit.
transfer_debit(T, sender, amount) ==
    Bind(get_balance(T, sender), LAMBDA sender_balance :
      IF sender_balance < amount THEN [tree |-> T, ret |-> "False"]
      ELSE
    Bind(set_balance(T, sender, sender_balance - amount), LAMBDA T1 :
      IF T1.err # "" THEN [tree |-> T1, ret |-> "DatabaseServiceError"]
      ELSE [tree |-> T1, ret |-> ""]))

\* transfer from its second read on: the credit of the receiver.
transfer_credit(T, receiver, amount) ==
    Bind(get_balance(T, receiver), LAMBDA receiver_balance :
    Bind(set_balance(T, receiver, receiver_balance + amount), LAMBDA T2 :
      IF T2.err # "" THEN [tree |-> T2, ret |-> "DatabaseServiceError"]
      ELSE [tree |-> T2, ret |-> "True"]))

get_last_checked_block(T) ==
    LET data == get_data_in(T, LAST_CHECKED_BLOCK_KEY)
    IN  IF data = None \/ Len(data) < 8 THEN 0 ELSE UnpackQ(data)

set_last_checked_block(T, block_number) ==
    IF block_number < 0 THEN Raise(T, "Block number must be non-negative")
    ELSE add_or_update_data(T, LAST_CHECKED_BLOCK_KEY, PackQ(block_number))

set_block_root_hash(T, block_number, hash) ==
    add_or_update_data(T, block_root_key(block_number), hash)

get_block_root_hash(T, block_number) ==
    get_data_in(T, block_root_key(block_number))

\* ---------------------------------------------------- transaction processor

\* A hexadecimal string is a sequence of characters: 0..15 are the hex
\* digits, CharX is 'x' and CharG a letter that is no hex digit; CharMinus
\* is the sign of a decimal string.
CharX == 16
CharG == 17
CharMinus == 18

\* The seeded accounts (INITIAL_BALANCES) in the order the dict holds them,
\* each address cut to its first byte, and an account that is never seeded.
Addr1 == << 199 >>
Addr2 == << 59 >>
Addr3 == << 146 >>
Addr4 == << 1 >>

\* The seed of each account, scaled from 1_000_000_000_000 to a value next
\* to a byte boundary of the balance encoding.
SeedBalance == 256

INITIAL_BALANCES == << << Addr1, SeedBalance >>, << Addr2, SeedBalance >>,
                       << Addr3, SeedBalance >> >>

\* bytes.fromhex succeeds on an even number of hex digits.
IsHex(h) == Len(h) % 2 = 0 /\ \A i \in 1..Len(h) : h[i] < 16

\* hex_str[2:] if hex_str.startswith("0x") else hex_str
strip_0x(h) == IF Len(h) >= 2 /\ h[1] = 0 /\ h[2] = CharX
               THEN SubSeq(h, 3, Len(h)) ELSE h

\* int(s) of a string: decimal digits, after a minus sign or not.
IsDecimal(c) ==
    /\ Len(c) > 0
    /\ \A i \in 2..Len(c) : c[i] < 10
    /\ c[1] < 10 \/ (c[1] = CharMinus /\ Len(c) > 1)

RECURSIVE digits_value(_)
digits_value(c) == IF c = << >> THEN 0
                   ELSE digits_value(SubSeq(c, 1, Len(c) - 1)) * 10 + c[Len(c)]

int_of_str(c) == IF c # << >> /\ c[1] = CharMinus THEN 0 - digits_value(Tail(c))
                 ELSE digits_value(c)

\* A field of the JSON object: absent (or null), an integer, or a string.
JAbsent == [t |-> "absent", n |-> 0, s |-> << >>]
JInt(n) == [t |-> "int", n |-> n, s |-> << >>]
JStr(c) == [t |-> "str", n |-> 0, s |-> c]

\* A transaction of the feed: the sender the chain reports and the payload,
\* which is not hex, hex that is not JSON, or a JSON object.
Txn(sender, payload, action, amount, receiver) ==
    [sender |-> sender, payload |-> payload, action |-> action,
     amount |-> amount, receiver |-> receiver]

\* str.lower() on the action names the feed is given.
lower(a) == IF a = "TRANSFER" THEN "transfer" ELSE a

\* What handling a transaction did: the tree after it, whether transfer was
\* called, with which arguments, what it returned, and exc, the class of the
\* exception that left the function ("" when it returned).
Dropped(T) == [tree |-> T, called |-> FALSE, ret |-> "dropped",
               sender |-> None, receiver |-> None, amount |-> 0, exc |-> ""]

\* raise: nothing was done to the tree.
Thrown(T, exc) == [Dropped(T) EXCEPT !.exc = exc]

Transferred(T, sender, receiver, amount) ==
    Bind(transfer(T, sender, receiver, amount), LAMBDA r :
      [tree |-> r.tree, called |-> TRUE, ret |-> r.ret,
       sender |-> sender, receiver |-> receiver, amount |-> amount,
       exc |-> IF r.ret = "DatabaseServiceError" THEN r.ret ELSE ""])

\* The exception classes the handlers meet: json.JSONDecodeError is a
\* ValueError, and all of them are Exceptions.
ValueError == { "ValueError", "JSONDecodeError" }
TypeError == { "TypeError" }
Exception == ValueError \cup TypeError
                 \cup { "AttributeError", "DatabaseServiceError" }

\* try: ... except classes: (log).  An exception of one of the classes ends
\* there and the function returns; any other leaves the function.
Except(r, classes) == IF r.exc \in classes THEN [r EXCEPT !.exc = ""] ELSE r

\* Main.handle_transfer (main.py): amount and receiver must be present, a
\* string amount goes through int(), both addresses through
\* decode_hex_address (a receiver that is no string has no startswith);
\* ValueError and TypeError are logged, a DatabaseServiceError is raised on
\* to process_transaction and any other exception leaves the function too.
handle_transfer_main(T, txn) ==
    LET amount == txn.amount
        receiver_hex == txn.receiver
    IN  Except(
          IF amount.t = "absent" \/ receiver_hex.t = "absent" THEN Dropped(T)
          ELSE IF amount.t = "str" /\ ~IsDecimal(amount.s)
          THEN Thrown(T, "ValueError")
          ELSE IF ~IsHex(strip_0x(txn.sender)) THEN Thrown(T, "ValueError")
          ELSE IF receiver_hex.t # "str" THEN Thrown(T, "AttributeError")
          ELSE IF ~IsHex(strip_0x(receiver_hex.s)) THEN Thrown(T, "ValueError")
          ELSE Transferred(T, FromHex(strip_0x(txn.sender)),
                           FromHex(strip_0x(receiver_hex.s)),
                           IF amount.t = "str" THEN int_of_str(amount.s)
                           ELSE amount.n),
          ValueError \cup TypeError)

\* handle_transfer (handler.py): amount = int(get('amount', 0)), receiver =
\* get('receiver', ''); a transfer needs amount > 0 and a receiver; every
\* exception is logged.
handle_transfer_handler(T, txn) ==
    LET amount_ok == txn.amount.t = "int"
                       \/ (txn.amount.t = "str" /\ IsDecimal(txn.amount.s))
        amount == IF txn.amount.t = "str" THEN int_of_str(txn.amount.s)
                  ELSE txn.amount.n
        receiver_hex == IF txn.receiver.t = "absent" THEN << >>
                        ELSE txn.receiver.s
    IN  Except(
          IF txn.amount.t # "absent" /\ ~amount_ok THEN Thrown(T, "ValueError")
          ELSE IF amount <= 0 \/ receiver_hex = << >> THEN Dropped(T)
          ELSE IF ~IsHex(strip_0x(txn.sender)) \/ ~IsHex(strip_0x(receiver_hex))
          THEN Thrown(T, "ValueError")
          ELSE Transferred(T, FromHex(strip_0x(txn.sender)),
                           FromHex(strip_0x(receiver_hex)), amount),
          Exception)

\* The try block of process_transaction: hex to bytes (ValueError), bytes
\* to JSON (JSONDecodeError), then the action.
transaction_body(T, txn, variant) ==
    IF txn.payload = "nothex" THEN Thrown(T, "ValueError")
    ELSE IF txn.payload # "json" THEN Thrown(T, "JSONDecodeError")
    ELSE IF lower(txn.action) # "transfer" THEN Dropped(T)
    ELSE IF variant = "main" THEN handle_transfer_main(T, txn)
    ELSE handle_transfer_handler(T, txn)

\* process_transaction with the first except clause of main.py alone: only a
\* JSONDecodeError is caught.
process_transaction_json_errors_only(T, txn, variant) ==
    Except(transaction_body(T, txn, variant), { "JSONDecodeError" })

\* process_transaction: the try block under except Exception (main.py has
\* an except json.JSONDecodeError before it); an exception ends the handling
\* of this transaction and no other.
process_transaction(T, txn, variant) ==
    Except(transaction_body(T, txn, variant), Exception)

\* --------------------------------------------------------- consensus driver

START_BLOCK == 1

\* What a peer's /rootHash endpoint can answer to one request: status 0 is
\* no answer at all (timeout, connection error).
PeerAnswers(local_root) ==
    { [status |-> 200, body |-> Hex(local_root)],
      [status |-> 200, body |-> Hex(<< 0 >>)],
      [status |-> 200, body |-> << >>],
      [status |-> 200, body |-> << CharG, CharG >>],
      [status |-> 400, body |-> << >>],
      [status |-> 0, body |-> << >>] }

\* fetch_peer_root_hash: (success, root)
fetch_peer_root_hash(resp) ==
    IF resp.status = 0 THEN [success |-> FALSE, root |-> None]
    ELSE IF resp.status # 200 THEN [success |-> TRUE, root |-> None]
    ELSE IF resp.body = << >> THEN [success |-> FALSE, root |-> None]
    ELSE IF ~IsHex(resp.body) THEN [success |-> FALSE, root |-> None]
    ELSE [success |-> TRUE, root |-> FromHex(resp.body)]

\* A simple majority in place of two thirds.
quorum_of_majority(peers_count) == peers_count \div 2 + 1

quorum_of(peers_count) == (peers_count * 2) \div 3 + 1

\* No round yet.  block_number .. asked are the locals of
\* check_root_hash_validity_and_save (asked: peers queried so far); same,
\* dead and alive_null count the answers by kind; outcome is how the round
\* ended and err the exception that ended it.
IdleRound ==
    [pc |-> "idle", block_number |-> 0, local_root |-> None, peers_count |-> 0,
     quorum |-> 0, matches |-> 0, asked |-> 0, same |-> 0, dead |-> 0,
     alive_null |-> 0, outcome |-> "none", revert_called |-> FALSE, err |-> ""]

\* One iteration of the loop over the peers, before the test on quorum.
peer_step(r, resp, variant) ==
    LET f == fetch_peer_root_hash(resp)
        hit == f.success /\ f.root # None
        is_same == hit /\ f.root = r.local_root
        dec == ~hit /\ (variant = "main" \/ r.peers_count > 0)
        peers_count == IF dec THEN r.peers_count - 1 ELSE r.peers_count
    IN  [r EXCEPT !.matches = IF is_same THEN @ + 1 ELSE @,
                  !.peers_count = peers_count,
                  !.quorum = IF dec THEN quorum_of(peers_count) ELSE @,
                  !.asked = @ + 1,
                  !.same = IF is_same THEN @ + 1 ELSE @,
                  !.dead = IF ~f.success THEN @ + 1 ELSE @,
                  !.alive_null = IF f.success /\ f.root = None THEN @ + 1 ELSE @]

\* init_initial_balances: on a store whose last checked block is 0 the seed
\* balances are set in turn and flushed; an error ends the loop.
RECURSIVE set_initial_balances(_, _)
set_initial_balances(T, i) ==
    IF i > Len(INITIAL_BALANCES) \/ T.err # "" THEN T
    ELSE set_initial_balances(
           set_balance(T, INITIAL_BALANCES[i][1], INITIAL_BALANCES[i][2]), i + 1)

init_initial_balances(T) ==
    IF get_last_checked_block(T) # 0 THEN T
    ELSE Bind(set_initial_balances(T, 1), LAMBDA T1 :
           IF T1.err # "" THEN T1 ELSE flush_to_disk(T1))

\* ------------------------------------------------------- /rootHash endpoint

\* A response: the status, and the body as a message or as a hex string.
Response(status, text, hex) == [status |-> status, text |-> text, hex |-> hex]

\* root_hash_endpoint that serves the current root for every block from the
\* last checked one on.
root_hash_endpoint_from_last_on(T, is_closed, param) ==
    IF param.t = "absent" THEN Response(400, "Missing blockNumber parameter", << >>)
    ELSE IF ~IsDecimal(param.s)
    THEN Response(400, "Invalid block number format", << >>)
    ELSE IF is_closed THEN Response(500, "Database error", << >>)
    ELSE
    Bind(int_of_str(param.s), LAMBDA block_number :
    Bind(get_last_checked_block(T), LAMBDA last_checked_block :
      IF block_number >= last_checked_block
      THEN IF get_root_hash(T) # None
           THEN Response(200, "", Hex(get_root_hash(T)))
           ELSE Response(400, "Root hash not available", << >>)
      ELSE IF block_number < last_checked_block /\ block_number > 1
      THEN IF get_block_root_hash(T, block_number) # None
           THEN Response(200, "", Hex(get_block_root_hash(T, block_number)))
           ELSE Response(400, "Block root hash not found", << >>)
      ELSE Response(400, "Invalid block number", << >>)))

\* root_hash_endpoint: param is request.args.get('blockNumber'), absent or
\* a string.  On a closed store get_last_checked_block raises
\* DatabaseServiceError.
root_hash_endpoint(T, is_closed, param) ==
    IF param.t = "absent" THEN Response(400, "Missing blockNumber parameter", << >>)
    ELSE IF ~IsDecimal(param.s)
    THEN Response(400, "Invalid block number format", << >>)
    ELSE IF is_closed THEN Response(500, "Database error", << >>)
    ELSE
    Bind(int_of_str(param.s), LAMBDA block_number :
    Bind(get_last_checked_block(T), LAMBDA last_checked_block :
      IF block_number = last_checked_block
      THEN IF get_root_hash(T) # None
           THEN Response(200, "", Hex(get_root_hash(T)))
           ELSE Response(400, "Root hash not available", << >>)
      ELSE IF block_number < last_checked_block /\ block_number > 1
      THEN IF get_block_root_hash(T, block_number) # None
           THEN Response(200, "", Hex(get_block_root_hash(T, block_number)))
           ELSE Response(400, "Block root hash not found", << >>)
      ELSE Response(400, "Invalid block number", << >>)))

\* ------------------------------------------------------- observable state

\* get_root_hash(), get_num_leaves(), get_depth(), the hanging-node map and
\* get_data(K) for every key.
get_data(key) == get_data_in(Mem, key)

Obs == [root |-> root_hash, num_leaves |-> num_leaves, depth |-> depth,
        hanging |-> hanging_nodes, data |-> [k \in Keys |-> get_data(k)]]

\* ------------------------------------------------------------------ actions

SetMem(T) ==
    /\ root_hash' = T.root_hash
    /\ num_leaves' = T.num_leaves
    /\ depth' = T.depth
    /\ hanging_nodes' = T.hanging_nodes
    /\ nodes_cache' = T.nodes_cache
    /\ key_data_cache' = T.key_data_cache
    /\ has_unsaved_changes' = T.has_unsaved_changes
    /\ db' = T.db

\* tree.add_or_update_data(key, data)
PutData(key, data) ==
    /\ ~closed
    /\ nops < MaxOps
    /\ Bind(add_or_update_data(Mem, key, data), LAMBDA T :
          /\ SetMem(T)
          /\ last_op' = [op |-> "put", err |-> T.err, acted |-> TRUE,
                         key |-> key, data |-> data, was |-> get_data(key)])
    /\ base' = IF has_unsaved_changes THEN base ELSE Obs
    /\ puts' = With(puts, key, data)
    /\ order' = IF key # << >> /\ data # << >> /\ get_data(key) = None
                THEN [order EXCEPT !.now = Append(@, key)] ELSE order
    /\ nops' = nops + 1
    /\ UNCHANGED << closed, open_trees, at_close >>
    /\ UNCHANGED appVars

\* tree.flush_to_disk()
Flush ==
    /\ ~closed
    /\ nops < MaxOps
    /\ SetMem(flush_to_disk(Mem))
    /\ last_op' = [op |-> "flush", err |-> "", acted |-> has_unsaved_changes]
    /\ order' = [order EXCEPT !.saved = order.now]
    /\ nops' = nops + 1
    /\ UNCHANGED << closed, open_trees, base, at_close, puts >>
    /\ UNCHANGED appVars

\* tree.revert_unsaved_changes()
Revert ==
    /\ ~closed
    /\ nops < MaxOps
    /\ SetMem(revert_unsaved_changes(Mem))
    /\ last_op' = [op |-> "revert", err |-> "", acted |-> has_unsaved_changes]
    /\ puts' = IF has_unsaved_changes THEN Empty ELSE puts
    /\ order' = [order EXCEPT !.now = order.saved]
    /\ nops' = nops + 1
    /\ UNCHANGED << closed, open_trees, base, at_close >>
    /\ UNCHANGED appVars

\* close() that leaves the name in _open_trees.
Close_keeps_name ==
    /\ ~closed
    /\ nops < MaxOps
    /\ SetMem(flush_to_disk(Mem))
    /\ closed' = TRUE
    /\ at_close' = Obs
    /\ last_op' = [op |-> "close", err |-> "", acted |-> TRUE,
                   unsaved |-> has_unsaved_changes]
    /\ nops' = nops + 1
    /\ order' = [order EXCEPT !.saved = order.now]
    /\ UNCHANGED << open_trees, base, puts >>
    /\ UNCHANGED appVars

\* close() without its flush_to_disk().
Close_unflushed ==
    /\ ~closed
    /\ nops < MaxOps
    /\ closed' = TRUE
    /\ open_trees' = FALSE
    /\ at_close' = Obs
    /\ last_op' = [op |-> "close", err |-> "", acted |-> TRUE,
                   unsaved |-> has_unsaved_changes]
    /\ nops' = nops + 1
    /\ UNCHANGED << root_hash, num_leaves, depth, hanging_nodes, nodes_cache,
                    key_data_cache, has_unsaved_changes, db, base, puts,
                    order >>
    /\ UNCHANGED appVars

\* tree.close(): flush, release the name, closed = True.
Close ==
    /\ ~closed
    /\ nops < MaxOps
    /\ SetMem(flush_to_disk(Mem))
    /\ closed' = TRUE
    /\ open_trees' = FALSE
    /\ at_close' = Obs
    /\ last_op' = [op |-> "close", err |-> "", acted |-> TRUE,
                   unsaved |-> has_unsaved_changes]
    /\ nops' = nops + 1
    /\ order' = [order EXCEPT !.saved = order.now]
    /\ UNCHANGED << base, puts >>
    /\ UNCHANGED appVars

\* MerkleTree(tree_name) once the name is free: a new object over the same
\* directory, its metadata loaded.
Open ==
    /\ ~open_trees
    /\ nops < MaxOps
    /\ SetMem(reloaded(Mem))
    /\ closed' = FALSE
    /\ open_trees' = TRUE
    /\ last_op' = [op |-> "open", err |-> "", acted |-> TRUE,
                   unsaved_at_close |-> last_op.op = "close" /\ last_op.unsaved]
    /\ nops' = nops + 1
    /\ order' = [order EXCEPT !.now = order.saved]
    /\ UNCHANGED << base, at_close, puts >>
    /\ UNCHANGED appVars

\* MerkleTree(tree_name) while the name is registered: the constructor
\* raises before it makes anything, and the live store is not touched.
OpenLive ==
    /\ open_trees
    /\ nops < MaxOps
    /\ last_op' = [op |-> "open", acted |-> FALSE,
                   err |-> "There is already an open instance of this tree"]
    /\ nops' = nops + 1
    /\ UNCHANGED << storeVars, base, at_close, puts, order >>
    /\ UNCHANGED appVars

\* The public methods of MerkleTree that start with a test on closed.
PublicMethods ==
    { "get_root_hash", "get_num_leaves", "get_depth", "get_data",
      "add_or_update_data", "flush_to_disk", "clear", "contains_key",
      "revert_unsaved_changes", "get_root_hash_saved_on_disk" }

\* _error_if_closed
error_if_closed(is_closed) == IF is_closed THEN "MerkleTree is closed" ELSE ""

\* How a public method ends before it reads its arguments: flush_to_disk
\* and revert_unsaved_changes return when there are no unsaved changes, and
\* only then comes _error_if_closed, with which every other method starts.
entry_error(method, T, is_closed) ==
    IF method \in { "flush_to_disk", "revert_unsaved_changes" }
         /\ ~T.has_unsaved_changes
    THEN ""
    ELSE error_if_closed(is_closed)

\* A public method is called on the store after close(): it ends at its
\* first statements, having changed nothing.
ClosedCall(method) ==
    /\ closed
    /\ nops < MaxOps
    /\ last_op' = [op |-> "closed_call", method |-> method, acted |-> FALSE,
                   err |-> entry_error(method, Mem, closed)]
    /\ nops' = nops + 1
    /\ UNCHANGED << storeVars, base, at_close, puts, order >>
    /\ UNCHANGED appVars

\* The methods that only read: get_data(key), contains_key(key) and
\* get_root_hash_saved_on_disk() on an open store, with a key that is not
\* empty.  data is what the call returned when that is bytes, found whether
\* it returned a value (contains_key: what it returned).
ReadMethods == { "get_data", "contains_key", "get_root_hash_saved_on_disk" }

ReadCall(method, key) ==
    /\ ~closed
    /\ nops < MaxOps
    /\ last_op' =
          [op |-> "read", method |-> method, key |-> key, err |-> "",
           acted |-> TRUE,
           data |-> IF method = "get_data" THEN get_data_in(Mem, key)
                    ELSE IF method = "get_root_hash_saved_on_disk"
                    THEN get_root_hash_saved_on_disk(Mem)
                    ELSE None,
           found |-> IF method = "get_data" THEN get_data_in(Mem, key) # None
                     ELSE IF method = "get_root_hash_saved_on_disk"
                     THEN get_root_hash_saved_on_disk(Mem) # None
                     ELSE contains_key(Mem, key)]
    /\ nops' = nops + 1
    /\ UNCHANGED << storeVars, base, at_close, puts, order >>
    /\ UNCHANGED appVars

\* ----------------------------------------------------------- service calls

\* set_balance(address, balance) called on the open store.
SetBalance(address, balance) ==
    /\ ~closed
    /\ nops < MaxServiceCalls
    /\ Bind(set_balance(Mem, address, balance), LAMBDA T :
          /\ SetMem(T)
          /\ last_op' = [op |-> "set_balance", err |-> T.err, acted |-> TRUE,
                         address |-> address, balance |-> balance])
    /\ nops' = nops + 1
    /\ UNCHANGED << closed, open_trees, base, at_close, puts, order >>
    /\ UNCHANGED appVars

\* set_last_checked_block(block_number) called on the open store.
SetLastCheckedBlock(block_number) ==
    /\ ~closed
    /\ nops < MaxServiceCalls
    /\ Bind(set_last_checked_block(Mem, block_number), LAMBDA T :
          /\ SetMem(T)
          /\ last_op' = [op |-> "set_last_checked_block", err |-> T.err,
                         acted |-> TRUE, block_number |-> block_number])
    /\ nops' = nops + 1
    /\ UNCHANGED << closed, open_trees, base, at_close, puts, order >>
    /\ UNCHANGED appVars

\* set_block_root_hash(block_number, hash) called on the open store.
SetBlockRootHash(block_number, hash) ==
    /\ ~closed
    /\ nops < MaxServiceCalls
    /\ Bind(set_block_root_hash(Mem, block_number, hash), LAMBDA T :
          /\ SetMem(T)
          /\ last_op' = [op |-> "set_block_root_hash", err |-> T.err,
                         acted |-> TRUE, block_number |-> block_number,
                         hash |-> hash])
    /\ nops' = nops + 1
    /\ UNCHANGED << closed, open_trees, base, at_close, puts, order >>
    /\ UNCHANGED appVars

\* The Flask thread handles GET /rootHash.
RootHashRequest(param) ==
    /\ nops < MaxServiceCalls
    /\ last_op' = [op |-> "request", err |-> "", acted |-> TRUE,
                   param |-> param,
                   response |-> root_hash_endpoint(Mem, closed, param)]
    /\ nops' = nops + 1
    /\ UNCHANGED << storeVars, base, at_close, puts, order >>
    /\ UNCHANGED appVars

\* ------------------------------------------------------ application actions

\* No call of transfer() under way; receiver and amount are the arguments
\* of a call that has debited the sender and not yet credited the receiver.
NoTransfer == [pc |-> "idle", receiver |-> None, amount |-> 0]

\* The threads that open the store, none of them inside the constructor
\* and none holding an instance.
Openers == 1..MaxOpeners
NoOpening == [t \in Openers |-> "idle"]

ghostVars == << nops, base, at_close, puts, order >>

\* The balances and the tree's root and flag, as a handler finds them.
Ledger(T) ==
    [balance |-> [a \in { Addr1, Addr2, Addr3, Addr4, << >> } |-> get_balance(T, a)],
     root |-> T.root_hash, unsaved |-> T.has_unsaved_changes]

\* Main.run / subscribe_and_sync up to the start of the monitor: the store
\* is opened, the seed balances are written to a store at block 0, the feed
\* starts at from_block and the monitor at the store's last checked block.
\* When init_initial_balances raises, run() ends in shutdown() and the exit
\* hook closes the store.
Run ==
    /\ ~running
    /\ sessions > 0
    /\ sessions' = sessions - 1
    /\ Bind(init_initial_balances(reloaded(Mem)), LAMBDA T :
        Bind(get_last_checked_block(T), LAMBDA last_block :
        Bind(IF last_block > 0 THEN last_block ELSE START_BLOCK,
             LAMBDA from_block :
          /\ IF T.err # ""
             THEN /\ SetMem(flush_to_disk(T))
                  /\ UNCHANGED << closed, open_trees, running,
                                  latest_checked_block, last_checked >>
             ELSE /\ SetMem(T)
                  /\ closed' = FALSE
                  /\ open_trees' = TRUE
                  /\ running' = TRUE
                  /\ latest_checked_block' = from_block
                  /\ last_checked' = last_block
          /\ last_op' = [op |-> "run", err |-> T.err, acted |-> TRUE])))
    /\ round' = IdleRound
    /\ UNCHANGED << impl, peers, ntx, ghostVars, transfer_pc, opening >>

\* The subscription hands one transaction to process_transaction.
ProcessTransaction(txn) ==
    /\ running
    /\ ntx > 0
    /\ ntx' = ntx - 1
    /\ Bind(process_transaction(Mem, txn, impl), LAMBDA r :
          /\ SetMem(r.tree)
          /\ last_op' = [op |-> "txn", err |-> r.tree.err, acted |-> r.called,
                         txn |-> txn, ret |-> r.ret, sender |-> r.sender,
                         receiver |-> r.receiver, amount |-> r.amount,
                         raised |-> r.exc, before |-> Ledger(Mem)])
    /\ UNCHANGED << closed, open_trees, impl, peers, running,
                    latest_checked_block, last_checked, round, sessions,
                    ghostVars, transfer_pc, opening >>

\* The subscription thread inside transfer(): the balance test and
\* set_balance(sender, ...), which takes and releases the tree's lock.
TransferDebit(sender, receiver, amount) ==
    /\ running
    /\ ntx > 0
    /\ transfer_pc.pc = "idle"
    /\ ntx' = ntx - 1
    /\ Bind(transfer_debit(Mem, sender, amount), LAMBDA r :
          /\ SetMem(r.tree)
          /\ transfer_pc' = IF r.ret = ""
                            THEN [transfer_pc EXCEPT !.pc = "debited",
                                                     !.receiver = receiver,
                                                     !.amount = amount]
                            ELSE transfer_pc
          /\ last_op' = [op |-> "debit", err |-> r.tree.err, acted |-> TRUE,
                         ret |-> r.ret])
    /\ UNCHANGED << closed, open_trees, impl, peers, running,
                    latest_checked_block, last_checked, round, sessions,
                    ghostVars, opening >>

\* The subscription thread inside transfer(), after the debit:
\* get_balance(receiver) and set_balance(receiver, ...), then the return.
TransferCredit ==
    /\ running
    /\ transfer_pc.pc = "debited"
    /\ Bind(transfer_credit(Mem, transfer_pc.receiver, transfer_pc.amount),
            LAMBDA r :
          /\ SetMem(r.tree)
          /\ last_op' = [op |-> "credit", err |-> r.tree.err, acted |-> TRUE,
                         ret |-> r.ret])
    /\ transfer_pc' = [transfer_pc EXCEPT !.pc = "idle"]
    /\ UNCHANGED << closed, open_trees, impl, peers, running,
                    latest_checked_block, last_checked, round, sessions, ntx,
                    ghostVars, opening >>

\* The subscription has checked one more block.
FeedAdvance ==
    /\ running
    /\ latest_checked_block < MaxBlock
    /\ latest_checked_block' = latest_checked_block + 1
    /\ last_op' = [op |-> "feed", err |-> "", acted |-> TRUE]
    /\ UNCHANGED << storeVars, impl, peers, running, last_checked, round,
                    sessions, ntx, ghostVars, transfer_pc, opening >>

\* monitor_blocks sees the feed ahead of last_checked and calls
\* on_chain_progress: set_last_checked_block, then
\* check_root_hash_validity_and_save up to its first request to a peer.
\* main.py logs an exception of set_last_checked_block and the monitor moves
\* on; handler.py lets it reach the monitor, which keeps last_checked.
RoundStart ==
    /\ running
    /\ round.pc # "loop"
    /\ latest_checked_block > last_checked
    /\ Bind(latest_checked_block, LAMBDA block_number :
        Bind(set_last_checked_block(Mem, block_number), LAMBDA T :
        Bind(get_root_hash(T), LAMBDA local_root :
        Bind([IdleRound EXCEPT !.block_number = block_number], LAMBDA r :
          /\ SetMem(T)
          /\ IF T.err # ""
             THEN /\ round' = [r EXCEPT !.pc = "done", !.outcome = "error",
                                        !.err = T.err]
                  /\ last_checked' = IF impl = "main" THEN block_number
                                     ELSE last_checked
             ELSE IF local_root = None
             THEN /\ round' = [r EXCEPT !.pc = "done", !.outcome = "no_root"]
                  /\ last_checked' = block_number
             ELSE /\ round' = [r EXCEPT !.pc = "loop",
                                        !.local_root = local_root,
                                        !.peers_count = peers,
                                        !.quorum = quorum_of(peers)]
                  /\ UNCHANGED last_checked
          /\ last_op' = [op |-> "round_start", err |-> T.err,
                         acted |-> TRUE]))))
    /\ UNCHANGED << closed, open_trees, impl, peers, running,
                    latest_checked_block, sessions, ntx, ghostVars, transfer_pc, opening >>

\* One peer answers: the body of the loop, and on quorum
\* set_block_root_hash and the return to the monitor.
PeerAnswer(resp) ==
    /\ running
    /\ round.pc = "loop"
    /\ round.asked < peers
    /\ Bind(peer_step(round, resp, impl), LAMBDA r :
          IF r.matches >= r.quorum
          THEN Bind(set_block_root_hash(Mem, round.block_number,
                                        round.local_root), LAMBDA T :
                 /\ SetMem(T)
                 /\ round' = [r EXCEPT !.pc = "done", !.outcome = "commit",
                                       !.err = T.err]
                 /\ last_checked' = IF T.err # "" /\ impl = "handler"
                                    THEN last_checked ELSE round.block_number)
          ELSE /\ round' = r
               /\ UNCHANGED << root_hash, num_leaves, depth, hanging_nodes,
                               nodes_cache, key_data_cache,
                               has_unsaved_changes, db, last_checked >>)
    /\ last_op' = [op |-> "peer", err |-> "", acted |-> TRUE]
    /\ UNCHANGED << closed, open_trees, impl, peers, running,
                    latest_checked_block, sessions, ntx, ghostVars, transfer_pc, opening >>

\* The loop ends without quorum: revert_unsaved_changes(); main.py then
\* reads get_last_checked_block() and logs it, the subscription is not
\* touched.
RoundEnd ==
    /\ running
    /\ round.pc = "loop"
    /\ round.asked = peers
    /\ SetMem(revert_unsaved_changes(Mem))
    /\ round' = [round EXCEPT !.pc = "done", !.outcome = "revert",
                              !.revert_called = TRUE]
    /\ last_checked' = round.block_number
    /\ last_op' = [op |-> "round_end", err |-> "", acted |-> TRUE]
    /\ UNCHANGED << closed, open_trees, impl, peers, running,
                    latest_checked_block, sessions, ntx, ghostVars, transfer_pc, opening >>

\* Main.shutdown and the exit hook: the subscription is stopped, the store
\* flushed and closed; the monitor thread ends with the process.
Shutdown ==
    /\ running
    /\ SetMem(flush_to_disk(Mem))
    /\ closed' = TRUE
    /\ open_trees' = FALSE
    /\ running' = FALSE
    /\ round' = IF round.pc = "loop" THEN [round EXCEPT !.pc = "done",
                                                        !.outcome = "aborted"]
                ELSE round
    /\ last_op' = [op |-> "shutdown", err |-> "", acted |-> TRUE]
    /\ UNCHANGED << impl, peers, latest_checked_block, last_checked, sessions,
                    ntx, ghostVars, transfer_pc, opening >>

vars == << root_hash, num_leaves, depth, hanging_nodes, nodes_cache,
           key_data_cache, has_unsaved_changes, closed, open_trees, db,
           last_op, nops, base, at_close, puts, order, impl, peers, running,
           latest_checked_block, last_checked, round, sessions, ntx,
           transfer_pc, opening >>

\* MerkleTree(name) on a name never used: empty database, nothing loaded.
Init ==
    /\ root_hash = None
    /\ num_leaves = 0
    /\ depth = 0
    /\ hanging_nodes = Empty
    /\ nodes_cache = Empty
    /\ key_data_cache = Empty
    /\ has_unsaved_changes = FALSE
    /\ closed = FALSE
    /\ open_trees = TRUE
    /\ db = EmptyDB
    /\ last_op = [op |-> "init", err |-> "", acted |-> TRUE]
    /\ nops = 0
    /\ base = [root |-> None, num_leaves |-> 0, depth |-> 0, hanging |-> Empty,
               data |-> [k \in Keys |-> None]]
    /\ at_close = base
    /\ puts = Empty
    /\ order = [now |-> << >>, saved |-> << >>]
    /\ impl = "main"
    /\ peers = 0
    /\ running = FALSE
    /\ latest_checked_block = 0
    /\ last_checked = 0
    /\ round = IdleRound
    /\ sessions = 0
    /\ ntx = 0
    /\ transfer_pc = NoTransfer
    /\ opening = NoOpening

Next ==
    \/ \E key \in Keys, data \in Values : PutData(key, data)
    \/ Flush
    \/ Revert
    \/ Close
    \/ Open

Spec == Init /\ [][Next]_vars

\* Every call of the store, with good and bad arguments, on a live store, on
\* a closed one and on a name that is registered.
CallKeys == { <<97>>, <<98>>, << >> }
CallValues == Values \cup { << >> }

NextCalls ==
    \/ \E key \in CallKeys, data \in CallValues : PutData(key, data)
    \/ Flush
    \/ Revert
    \/ Close
    \/ Open
    \/ OpenLive
    \/ \E method \in PublicMethods : ClosedCall(method)

SpecCalls == Init /\ [][NextCalls]_vars

\* The ledger service and the endpoint over the store: the accessors with
\* good and bad arguments, puts with an empty key or an empty value, and
\* requests for blocks around the last checked one.
ServiceAddresses == { Addr1, Addr4 }
ServiceBalances == { -1, 0, 1, 256 }
ServiceBlocks == { -1, 0, 2, 3, 2147483647 }
RootBlocks == { 2, 3 }
BadPuts == { << << >>, <<49>> >>, << <<97>>, << >> >> }
RequestParams ==
    { JAbsent, JStr(<< CharG >>), JStr(<< CharMinus, 1 >>) }
        \cup { JStr(<< n >>) : n \in 0..4 }

NextService ==
    \/ \E address \in ServiceAddresses, balance \in ServiceBalances :
          SetBalance(address, balance)
    \/ \E block_number \in ServiceBlocks : SetLastCheckedBlock(block_number)
    \/ \E block_number \in RootBlocks : SetBlockRootHash(block_number, <<7>>)
    \/ \E input \in BadPuts :
          nops < MaxServiceCalls /\ PutData(input[1], input[2])
    \/ \E param \in RequestParams : RootHashRequest(param)
    \/ Flush
    \/ Revert
    \/ Close
    \/ Open

SpecService == Init /\ [][NextService]_vars

\* Puts alone on a fresh store, over enough keys for a tree of depth 3:
\* five keys inserted in any order, three of them with values to update.
PutInputs == (Keys \X Values) \cup ({ <<100>>, <<101>> } \X { <<49>> })

NextPuts == \E input \in PutInputs : PutData(input[1], input[2])

SpecPuts == Init /\ [][NextPuts]_vars

\* Puts of entries of which two have the same concatenation of key and
\* value, with flushes and reverts between them.
ConcatInputs ==
    { << <<97>>, <<98, 49>> >>, << <<97, 98>>, <<49>> >>, << <<97>>, <<49>> >>,
      << <<97, 98>>, <<50>> >>, << <<99>>, <<49>> >> }

NextConcat ==
    \/ \E input \in ConcatInputs : PutData(input[1], input[2])
    \/ Flush
    \/ Revert

SpecConcat == Init /\ [][NextConcat]_vars

\* Puts, flushes and reverts with the reading methods between them.
FrameKeys == { <<97>>, <<98>> }

NextFrame ==
    \/ \E key \in FrameKeys, data \in Values : PutData(key, data)
    \/ \E method \in ReadMethods : ReadCall(method, <<97>>)
    \/ Flush
    \/ Revert

SpecFrame == Init /\ [][NextFrame]_vars

\* The application before its first start: an empty database directory and
\* no process.
InitApp ==
    /\ root_hash = None
    /\ num_leaves = 0
    /\ depth = 0
    /\ hanging_nodes = Empty
    /\ nodes_cache = Empty
    /\ key_data_cache = Empty
    /\ has_unsaved_changes = FALSE
    /\ closed = TRUE
    /\ open_trees = FALSE
    /\ db = EmptyDB
    /\ last_op = [op |-> "init", err |-> "", acted |-> TRUE]
    /\ nops = 0
    /\ base = [root |-> None, num_leaves |-> 0, depth |-> 0, hanging |-> Empty,
               data |-> [k \in Keys |-> None]]
    /\ at_close = base
    /\ puts = Empty
    /\ order = [now |-> << >>, saved |-> << >>]
    /\ impl \in { "main", "handler" }
    /\ running = FALSE
    /\ latest_checked_block = 0
    /\ last_checked = 0
    /\ round = IdleRound
    /\ transfer_pc = NoTransfer
    /\ opening = NoOpening

\* The transactions the feed delivers to the ledger.
SenderHexes == { Hex(Addr1), Hex(Addr4) }
ReceiverHexes == { Hex(Addr1), << 0, CharX >> \o Hex(Addr2), Hex(Addr4), << >> }
Amounts == { -1, 0, 1, 2 }

Transfers ==
    { Txn(s, "json", "transfer", JInt(a), JStr(r)) :
        s \in SenderHexes, r \in ReceiverHexes, a \in Amounts }

Malformed ==
    { Txn(Hex(Addr1), "nothex", "", JAbsent, JAbsent),
      Txn(Hex(Addr1), "notjson", "", JAbsent, JAbsent),
      Txn(Hex(Addr1), "json", "mint", JInt(1), JStr(Hex(Addr2))),
      Txn(Hex(Addr1), "json", "transfer", JAbsent, JStr(Hex(Addr2))),
      Txn(Hex(Addr1), "json", "transfer", JInt(1), JAbsent),
      Txn(Hex(Addr1), "json", "transfer", JInt(1), JStr(<< CharG, CharG >>)),
      Txn(Hex(Addr1), "json", "transfer", JStr(<< CharG >>), JStr(Hex(Addr2))),
      Txn(Hex(Addr1), "json", "transfer", JInt(1), JInt(1)) }

Txns == Transfers \cup Malformed
           \cup { Txn(Hex(Addr1), "json", "TRANSFER", JStr(<< 1 >>), JStr(Hex(Addr2))) }

InitLedger == InitApp /\ peers = 1 /\ sessions = MaxSessions /\ ntx = MaxTxns

NextLedger ==
    \/ Run
    \/ \E txn \in Txns : ProcessTransaction(txn)
    \/ Shutdown

SpecLedger == InitLedger /\ [][NextLedger]_vars

\* The transactions the feed delivers while rounds are run.
RoundTxns == { Txn(Hex(Addr1), "json", "transfer", JInt(1), JStr(Hex(Addr2))) }

InitConsensus ==
    /\ InitApp
    /\ peers \in 0..MaxPeers
    /\ sessions = MaxRoundSessions
    /\ ntx = MaxRoundTxns

NextConsensus ==
    \/ Run
    \/ \E txn \in RoundTxns : ProcessTransaction(txn)
    \/ FeedAdvance
    \/ RoundStart
    \/ \E resp \in PeerAnswers(round.local_root) : PeerAnswer(resp)
    \/ RoundEnd
    \/ Shutdown

SpecConsensus == InitConsensus /\ [][NextConsensus]_vars

\* Requests to the endpoint while the subscription thread runs transfers
\* and the monitor thread runs rounds: each call of the tree takes the
\* tree's lock for itself, so a request or a round may run between the two
\* writes of one transfer.
RaceParams == { JStr(<< 2 >>), JStr(<< 3 >>) }

InitRace ==
    /\ InitApp
    /\ peers = 1
    /\ sessions = 1
    /\ ntx = MaxRoundTxns

NextRace ==
    \/ Run
    \/ \E amount \in { 1, SeedBalance + 1 } : TransferDebit(Addr1, Addr2, amount)
    \/ TransferCredit
    \/ FeedAdvance
    \/ RoundStart
    \/ \E resp \in PeerAnswers(round.local_root) : PeerAnswer(resp)
    \/ RoundEnd
    \/ \E param \in RaceParams : RootHashRequest(param)

SpecRace == InitRace /\ [][NextRace]_vars

\* C36: every root the endpoint returns is the root after a whole number of
\* transactions: no request is answered with the current root while a
\* transfer has debited its sender and not yet credited its receiver.
C36_NoRootInsideTransfer ==
    (/\ last_op.op = "request"
     /\ last_op.response.status = 200
     /\ last_op.response.hex = Hex(root_hash))
        => transfer_pc.pc # "debited"

\* MerkleTree(tree_name), first lock section: the name is looked up in
\* _open_trees under _open_trees_lock; the constructor raises when it is
\* there, and goes on without the lock when it is not.
OpenCheck(t) ==
    /\ opening[t] = "idle"
    /\ nops < MaxOps
    /\ opening' = [opening EXCEPT ![t] = IF open_trees THEN "idle" ELSE "checked"]
    /\ last_op' = [op |-> "open_check", acted |-> ~open_trees, thread |-> t,
                   err |-> IF open_trees
                           THEN "There is already an open instance of this tree"
                           ELSE ""]
    /\ nops' = nops + 1
    /\ UNCHANGED << storeVars, base, at_close, puts, order >>
    /\ UNCHANGED << impl, peers, running, latest_checked_block, last_checked,
                    round, sessions, ntx, transfer_pc >>

\* MerkleTree(tree_name), the rest: the object is built, closed = False,
\* the metadata are loaded, and the name is registered under
\* _open_trees_lock, whatever the registry holds by then.
OpenRegister(t) ==
    /\ opening[t] = "checked"
    /\ SetMem(reloaded(Mem))
    /\ closed' = FALSE
    /\ open_trees' = TRUE
    /\ opening' = [opening EXCEPT ![t] = "open"]
    /\ last_op' = [op |-> "open_register", acted |-> TRUE, thread |-> t,
                   err |-> ""]
    /\ UNCHANGED << impl, peers, running, latest_checked_block, last_checked,
                    round, sessions, ntx, transfer_pc, ghostVars >>

\* close() on the instance a thread holds: flush, the name is deleted from
\* _open_trees when it is there, closed = True.
CloseInstance(t) ==
    /\ opening[t] = "open"
    /\ SetMem(flush_to_disk(Mem))
    /\ open_trees' = FALSE
    /\ opening' = [opening EXCEPT ![t] = "idle"]
    /\ closed' = (\A u \in Openers \ { t } : opening[u] # "open")
    /\ last_op' = [op |-> "close_instance", acted |-> TRUE, thread |-> t,
                   err |-> ""]
    /\ UNCHANGED << impl, peers, running, latest_checked_block, last_checked,
                    round, sessions, ntx, transfer_pc, ghostVars >>

InitOpen ==
    /\ InitApp
    /\ peers = 0
    /\ sessions = 0
    /\ ntx = 0

NextOpen ==
    \/ \E t \in Openers : OpenCheck(t)
    \/ \E t \in Openers : OpenRegister(t)
    \/ \E t \in Openers : CloseInstance(t)

SpecOpen == InitOpen /\ [][NextOpen]_vars

\* C38: whatever the interleaving of the threads that open one name, at
\* most one of them holds a store instance that is not closed.
C38_OneOpenInstance ==
    Cardinality({ t \in Openers : opening[t] = "open" }) <= 1

\* Rounds over several starts of the application, without transactions:
\* one peer, and a store that is flushed at each shutdown.
InitRestart ==
    /\ InitApp
    /\ peers = 1
    /\ sessions = MaxSessions
    /\ ntx = 0

NextRestart ==
    \/ Run
    \/ FeedAdvance
    \/ RoundStart
    \/ \E resp \in PeerAnswers(round.local_root) : PeerAnswer(resp)
    \/ RoundEnd
    \/ Shutdown

SpecRestart == InitRestart /\ [][NextRestart]_vars

\* ------------------------------------------------- conditions of the model

\* The cache is keyed by the hash of the node it holds.
CacheKeyedByHash ==
    \A h \in DOMAIN nodes_cache : nodes_cache[h].hash = h

\* No cached node's hash is another cached node's hash to remove: the order
\* in which flush_to_disk visits the cache does not matter.
FlushOrderFree ==
    \A h, g \in DOMAIN nodes_cache :
        h # g => nodes_cache[h].node_hash_to_remove_from_db # g

\* The guard on the recursion of update_node_hash is never the reason an
\* operation stops.
ChainWithinGuard == last_op.err # "RecursionError"

\* --------------------------------------------------------------- properties

\* C1: from a store without unsaved changes, one or more puts followed by
\* revert() leave root(), num_leaves, depth, the hanging-node map and get(K)
\* for every key as they were just before the first of those puts.
C1_RevertRestores ==
    (last_op.op = "revert" /\ last_op.acted) => Obs = base

\* C2: after puts, a flush, close and open of the same name, root(),
\* num_leaves() and depth() are those of the first session and get(K) is the
\* last value put for every key put.
C2_ReloadEquivalence ==
    last_op.op = "open" =>
        /\ root_hash = at_close.root
        /\ num_leaves = at_close.num_leaves
        /\ depth = at_close.depth
        /\ \A k \in Keys : get_data(k) = at_close.data[k]
        /\ \A k \in DOMAIN puts : get_data(k) = puts[k]

\* A store reopened over at least two leaves, one of them updated after it
\* was inserted.
C2_Reopened ==
    /\ last_op.op = "open"
    /\ num_leaves >= 2
    /\ Cardinality(DOMAIN puts) >= 2
    /\ \E k \in DOMAIN puts : puts[k] = <<50>> /\ root_hash # None

\* C3: a round records the root of its block only if the peers that returned
\* local_root number at least floor(2 * active / 3) + 1, active being the
\* configured peers less the Dead ones asked so far; a peer answering with a
\* status other than 200 leaves active as it is.
C3_CommitOverActivePeers ==
    round.outcome = "commit" =>
        round.same >= (2 * (peers - round.dead)) \div 3 + 1

\* C4: when a round reaches quorum the store is flushed before the driver
\* returns: no unsaved changes, and the database's key data holds the root
\* recorded for the block and the block as last checked block.
C4_CommitIsFlushed ==
    (last_op.op = "peer" /\ round.outcome = "commit") =>
        /\ ~has_unsaved_changes
        /\ get_keydata(db, block_root_key(round.block_number)) = round.local_root
        /\ get_keydata(db, LAST_CHECKED_BLOCK_KEY) = PackQ(round.block_number)

\* C5: when a round ends without quorum the feed's watermark is set back to
\* the store's last checked block: the two are equal after the round.
C5_WatermarkRewound ==
    (last_op.op = "round_end" /\ round.revert_called) =>
        latest_checked_block = get_last_checked_block(Mem)

\* C6: with n >= 1 peers that all return local_root the round commits after
\* exactly floor(2n/3) + 1 requests and asks no further peer; with no peer,
\* or with every peer Dead, the round does not commit and ends in
\* revert_unsaved_changes().
C6_QuorumProgression ==
    /\ (round.pc = "loop" /\ round.same = round.asked) =>
            round.asked < (2 * peers) \div 3 + 1
    /\ (round.pc = "done" /\ round.asked >= 1 /\ round.same = round.asked
            /\ round.outcome # "aborted") =>
            /\ round.outcome = "commit"
            /\ round.asked = (2 * peers) \div 3 + 1
            /\ get_block_root_hash(Mem, round.block_number) = round.local_root
    /\ (round.outcome = "commit") => (peers >= 1 /\ round.dead < round.asked)
    /\ (round.pc = "done" /\ round.dead = round.asked /\ round.asked = peers
            /\ round.local_root # None /\ round.outcome # "aborted") =>
            (round.outcome = "revert" /\ round.revert_called)

\* Four peers were configured, three were asked and answered local_root, the
\* round committed and the fourth was never asked.
C6_CommittedAtQuorum ==
    /\ peers = 4
    /\ round.outcome = "commit"
    /\ round.same = 3
    /\ round.asked = 3
    /\ get_block_root_hash(Mem, round.block_number) = round.local_root

\* The balance of an address in a ledger view.
BalanceIn(l, a) == l.balance[a]

\* C7: a transfer between two different addresses, the sender's balance
\* being at least the amount, returns true and leaves the sum of the two
\* balances as it was.
C7_TransferConserves ==
    (last_op.op = "txn" /\ last_op.acted /\ last_op.sender # last_op.receiver
        /\ BalanceIn(last_op.before, last_op.sender) >= last_op.amount) =>
        /\ last_op.ret = "True"
        /\ BalanceIn(Ledger(Mem), last_op.sender)
             + BalanceIn(Ledger(Mem), last_op.receiver)
           = BalanceIn(last_op.before, last_op.sender)
             + BalanceIn(last_op.before, last_op.receiver)

\* A transaction that is no well-formed transfer of a positive amount: not
\* hexadecimal, not JSON, another action, no amount, no receiver, an amount
\* of zero or less, or an address that is no hexadecimal string.
IllFormed(txn) ==
    \/ txn.payload # "json"
    \/ lower(txn.action) # "transfer"
    \/ txn.amount.t = "absent"
    \/ txn.amount.t = "int" /\ txn.amount.n <= 0
    \/ txn.amount.t = "str" /\ ~IsDecimal(txn.amount.s)
    \/ txn.receiver.t = "absent"
    \/ txn.receiver.t = "str" /\ ~IsHex(strip_0x(txn.receiver.s))
    \/ ~IsHex(strip_0x(txn.sender))

\* C8: a transaction that is no well-formed transfer of a positive amount is
\* dropped: the balances, the root hash and the unsaved-changes flag are
\* after it what they were before.
C8_IllFormedDropped ==
    (last_op.op = "txn" /\ IllFormed(last_op.txn)) =>
        Ledger(Mem) = last_op.before

\* C9: a transfer of more than the sender's balance returns false and
\* changes nothing: the balances, every node of the tree, the root hash and
\* the unsaved-changes flag stay as they were.
C9_InsufficientFundsNoEffect ==
    [][ (last_op'.op = "txn" /\ last_op'.acted
           /\ BalanceIn(last_op'.before, last_op'.sender) < last_op'.amount) =>
          (/\ last_op'.ret = "False"
           /\ last_op'.before = Ledger(Mem)
           /\ UNCHANGED storeVars) ]_vars

\* A sender holding 1 asked for 2 while the store had unsaved changes.
C9_Refused ==
    /\ last_op.op = "txn"
    /\ last_op.acted
    /\ last_op.ret = "False"
    /\ last_op.amount = 2
    /\ BalanceIn(last_op.before, last_op.sender) = 1
    /\ has_unsaved_changes

\* C10: a transfer from an address to itself, its balance being at least the
\* amount, returns true and leaves the balance and the root hash as they
\* were.
C10_SelfTransfer ==
    (last_op.op = "txn" /\ last_op.acted /\ last_op.sender = last_op.receiver
        /\ BalanceIn(last_op.before, last_op.sender) >= last_op.amount) =>
        /\ last_op.ret = "True"
        /\ BalanceIn(Ledger(Mem), last_op.sender)
             = BalanceIn(last_op.before, last_op.sender)
        /\ root_hash = last_op.before.root

\* C11: process_transaction returns normally for every transaction: no
\* exception reaches the feed, whether the payload is malformed, the transfer
\* is refused or the store raises during the transfer.
C11_NothingRaisedToFeed ==
    last_op.op = "txn" => last_op.raised = ""

\* The store raised during a transfer and the processor returned.
C11_StoreErrorContained ==
    /\ last_op.op = "txn"
    /\ last_op.ret = "DatabaseServiceError"
    /\ last_op.err # ""
    /\ last_op.raised = ""
\* C12: after close() each of get, put, contains, root, root_on_disk,
\* num_leaves, depth, flush, revert and clear fails with the error of a
\* closed store.
C12_ClosedStoreRefuses ==
    last_op.op = "closed_call" => last_op.err = "MerkleTree is closed"
\* C13: open(name) while a store opened under the name has not been closed
\* fails with "There is already an open instance of this tree" and changes
\* nothing of that store; open(name) when there is no such store succeeds
\* and gives a store that is open and registered.
C13_OpenOnlyWhenNotLive ==
    [][ last_op'.op = "open" =>
          IF ~closed
          THEN /\ last_op'.err = "There is already an open instance of this tree"
               /\ UNCHANGED storeVars
          ELSE /\ last_op'.err = ""
               /\ ~closed'
               /\ open_trees' ]_vars

\* A second open was refused while the live store held unsaved changes.
C13_SecondOpenRefused ==
    /\ last_op.op = "open"
    /\ last_op.err # ""
    /\ ~closed
    /\ has_unsaved_changes
    /\ num_leaves >= 2
\* C14: close() flushes and releases the name.  Right after a close() the
\* store is closed, its name is free, nothing is unsaved and the database
\* holds the root and every value the store had just before the close; an
\* open(name) that follows a close() made with unsaved changes gives a store
\* with that root and those values.
C14_ClosePersists ==
    /\ last_op.op = "close" =>
          /\ closed /\ ~open_trees /\ ~has_unsaved_changes
          /\ get_metadata(db.metadata.rootHash) = at_close.root
          /\ \A k \in Keys : get_keydata(db, k) = at_close.data[k]
    /\ (last_op.op = "open" /\ last_op.err = "" /\ last_op.unsaved_at_close) =>
          /\ ~closed /\ open_trees
          /\ root_hash = at_close.root
          /\ \A k \in Keys : get_data(k) = at_close.data[k]

\* A store closed with unsaved inserts and an unsaved update was reopened.
C14_ReopenedAfterDirtyClose ==
    /\ last_op.op = "open"
    /\ last_op.err = ""
    /\ last_op.unsaved_at_close
    /\ num_leaves >= 2
    /\ \E k \in Keys : get_data(k) = <<50>>
\* C17: a put(K, V) with V the value get(K) returns changes nothing: root,
\* num_leaves, depth, the hanging-node map, both caches, the
\* unsaved-changes flag and the database stay as they were.
C17_NoOpPut ==
    [][ (last_op'.op = "put" /\ last_op'.data = get_data(last_op'.key)) =>
          UNCHANGED storeVars ]_vars

\* A put of the value a key already had, on a store without unsaved changes
\* that holds two leaves.
C17_NoOpPutOnCleanStore ==
    /\ last_op.op = "put"
    /\ last_op.was = last_op.data
    /\ last_op.err = ""
    /\ ~has_unsaved_changes
    /\ num_leaves >= 2

\* C18: get(K) returns the value of the latest put of K, flushed or not,
\* and contains(K) tells whether K is in the database's key data: after an
\* unflushed put of a new key get returns the value and contains is false,
\* after a flush contains is true of every key that has a value, and after a
\* revert a key that was new is absent for both.
C18_GetSeesCacheContainsDoesNot ==
    /\ last_op.op = "put" =>
          /\ get_data(last_op.key) = last_op.data
          /\ (last_op.was = None /\ last_op.err = "") =>
                ~contains_key(Mem, last_op.key)
    /\ last_op.op = "flush" =>
          \A k \in Keys : contains_key(Mem, k) <=> get_data(k) # None
    /\ (last_op.op = "revert" /\ last_op.acted) =>
          \A k \in Keys : base.data[k] = None =>
              (get_data(k) = None /\ ~contains_key(Mem, k))

\* An unflushed put of a new key on a store whose database holds another
\* key: get returns the value and contains is false.
C18_UnflushedNewKey ==
    /\ last_op.op = "put"
    /\ last_op.was = None
    /\ last_op.err = ""
    /\ get_data(last_op.key) = last_op.data
    /\ ~contains_key(Mem, last_op.key)
    /\ \E k \in Keys : contains_key(Mem, k)
\* The reference Merkle root: a level is hashed into the next by adjacent
\* pairs, an unpaired last node with itself, until one node remains.
RECURSIVE level_up(_)
level_up(hs) ==
    IF hs = << >> THEN << >>
    ELSE IF Len(hs) = 1 THEN << keccak_256_two_inputs(hs[1], hs[1]) >>
    ELSE << keccak_256_two_inputs(hs[1], hs[2]) >>
             \o level_up(SubSeq(hs, 3, Len(hs)))

RECURSIVE reference_root(_)
reference_root(hs) == IF Len(hs) = 1 THEN hs[1] ELSE reference_root(level_up(hs))

RECURSIVE reference_depth(_)
reference_depth(hs) == IF Len(hs) = 1 THEN 0 ELSE 1 + reference_depth(level_up(hs))

\* The hashes of the leaves in the order of first insertion of their keys.
leaf_hashes ==
    [i \in 1..Len(order.now) |->
        calculate_leaf_hash(order.now[i], get_data(order.now[i]))]

\* C16: after any sequence of puts on a fresh store the root is the
\* reference Merkle root over the current leaf hashes in order of first
\* insertion and depth is the number of levels above the leaves; so an
\* insert followed by an update gives the root of inserting the last value.
C16_ReferenceRoot ==
    order.now # << >> =>
        /\ root_hash = reference_root(leaf_hashes)
        /\ depth = reference_depth(leaf_hashes)

\* Five leaves, the first of them updated after the fifth was inserted: a
\* tree of depth 3 with an unpaired node on two levels.
C16_FiveLeavesOneUpdated ==
    /\ Len(order.now) = 5
    /\ depth = 3
    /\ last_op.op = "put"
    /\ last_op.key = order.now[1]
    /\ last_op.was # None
    /\ last_op.was # last_op.data
\* C15: a put with an empty key or an empty value, a set_balance with a
\* negative balance and a set_last_checked_block with a negative block
\* number end with an error and leave the tree's fields, its caches, the
\* unsaved-changes flag and the database as they were.
C15_BadArgumentNoEffect ==
    [][ ( \/ last_op'.op = "put"
                /\ (last_op'.key = << >> \/ last_op'.data = << >>)
          \/ last_op'.op = "set_balance" /\ last_op'.balance < 0
          \/ last_op'.op = "set_last_checked_block"
                /\ last_op'.block_number < 0 ) =>
          (last_op'.err # "" /\ UNCHANGED storeVars) ]_vars

\* A put with an empty value was refused on a store with unsaved changes.
C15_EmptyValueRefused ==
    /\ last_op.op = "put"
    /\ last_op.key # << >>
    /\ last_op.data = << >>
    /\ last_op.err = "Data cannot be empty"
    /\ has_unsaved_changes
    /\ num_leaves >= 1

\* C19: the accessors of the ledger round-trip.  After set_balance(a, x)
\* with x >= 0, get_balance(a) is x and the value stored is never empty
\* (one zero byte for 0); after set_last_checked_block(n) with n >= 0,
\* get_last_checked_block() is n; after set_block_root_hash(n, h),
\* get_block_root_hash(n) is h; an address and a watermark without a value
\* read 0.  Block numbers are checked up to 2^31 - 1.
C19_AccessorsRoundTrip ==
    /\ (last_op.op = "set_balance" /\ last_op.balance >= 0) =>
          /\ get_balance(Mem, last_op.address) = last_op.balance
          /\ get_data_in(Mem, last_op.address) # << >>
          /\ last_op.balance = 0 => get_data_in(Mem, last_op.address) = << 0 >>
    /\ (last_op.op = "set_last_checked_block" /\ last_op.block_number >= 0) =>
          get_last_checked_block(Mem) = last_op.block_number
    /\ last_op.op = "set_block_root_hash" =>
          get_block_root_hash(Mem, last_op.block_number) = last_op.hash
    /\ \A a \in ServiceAddresses :
          get_data_in(Mem, a) = None => get_balance(Mem, a) = 0
    /\ get_data_in(Mem, LAST_CHECKED_BLOCK_KEY) = None =>
          get_last_checked_block(Mem) = 0

\* A balance of 256 that is in the database was set to 0.
C19_ZeroOverFlushedBalance ==
    /\ last_op.op = "set_balance"
    /\ last_op.balance = 0
    /\ get_keydata(db, last_op.address) = << 1, 0 >>
    /\ get_balance(Mem, last_op.address) = 0

\* The block a request asks for.
Requested(param) == int_of_str(param.s)

\* C20: a request to /rootHash is answered 200 in two cases only: the block
\* is the last checked block and there is a current root, which is the
\* body in hex, or the block is above 1 and below the last checked block
\* and a root is recorded for it, which is the body in hex.  On an open
\* store a missing parameter, one that is no integer, a block above the last
\* checked block and an absent root are answered 400.  The request changes
\* nothing of the store.
C20_RootHashEndpoint ==
    [][ last_op'.op = "request" =>
          LET param == last_op'.param
              response == last_op'.response
              parsed == param.t # "absent" /\ IsDecimal(param.s)
              last == get_last_checked_block(Mem)
              current == parsed /\ ~closed /\ Requested(param) = last
                           /\ root_hash # None
              recorded == parsed /\ ~closed /\ Requested(param) > 1
                            /\ Requested(param) < last
                            /\ get_block_root_hash(Mem, Requested(param)) # None
          IN  /\ UNCHANGED storeVars
              /\ response.status = 200 <=> (current \/ recorded)
              /\ current => response.hex = Hex(root_hash)
              /\ recorded =>
                    response.hex = Hex(get_block_root_hash(Mem, Requested(param)))
              /\ (~parsed \/ (~closed /\ ~current /\ ~recorded)) =>
                    response.status = 400 ]_vars

\* A request for block 2 while block 3 is the last checked one was answered
\* with the root recorded for block 2.
C20_RecordedRootServed ==
    /\ last_op.op = "request"
    /\ last_op.param = JStr(<< 2 >>)
    /\ get_last_checked_block(Mem) = 3
    /\ last_op.response.status = 200
    /\ last_op.response.hex = Hex(<<7>>)
    /\ root_hash # <<7>>

\* C21: a request to /rootHash for a block n <= 1 on an open store is
\* answered 400 and carries no root hash, also when the last checked block
\* is itself 0 or 1.
C21_LowBlockRefused ==
    (/\ last_op.op = "request"
     /\ ~closed
     /\ last_op.param.t # "absent"
     /\ IsDecimal(last_op.param.s)
     /\ Requested(last_op.param) <= 1) =>
        (last_op.response.status = 400 /\ last_op.response.hex = << >>)

\* Whether the node stored under hash h in database d, and every node below
\* it through left and right, is in the nodes namespace under its own hash.
RECURSIVE durable_subtree_present(_, _, _)
durable_subtree_present(d, h, fuel) ==
    IF h = None \/ fuel = 0 THEN TRUE
    ELSE /\ Hex(h) \in DOMAIN d.nodes
         /\ get_node(d, h).hash = h
         /\ durable_subtree_present(d, get_node(d, h).left, fuel - 1)
         /\ durable_subtree_present(d, get_node(d, h).right, fuel - 1)

\* C22: after every flush, every node reachable from the root in the
\* database through left and right links is in the nodes namespace under
\* its current hash.
C22_DurableTreeComplete ==
    (last_op.op = "flush" /\ last_op.err = "") =>
        durable_subtree_present(db, get_metadata(db.metadata.rootHash), MaxChain)

\* C23: flushes, close and open, and reverts between the puts are not seen
\* by the puts: every put of a key and a value that are not empty succeeds,
\* as it does on a store that is never flushed, and leaves the root, the
\* number of leaves and the depth of the reference tree over the leaves in
\* the order of their first insertion, which is what the same puts give on a
\* store that is never flushed.
C23_FlushTransparent ==
    (last_op.op = "put" /\ last_op.key # << >> /\ last_op.data # << >>) =>
        /\ last_op.err = ""
        /\ root_hash = reference_root(leaf_hashes)
        /\ num_leaves = Len(order.now)
        /\ depth = reference_depth(leaf_hashes)

\* C24: the root recorded for a block at its commit is what
\* get_block_root_hash returns for that block in every later state, also
\* after a later round ends without quorum and reverts the store.
C24_CommittedRootKept ==
    [][ \A block_number \in 1..MaxBlock :
          get_block_root_hash(Mem, block_number) # None =>
            get_block_root_hash(Mem', block_number)
              = get_block_root_hash(Mem, block_number) ]_vars

\* The sum of the balances of the accounts transactions can name.
total_balance(T) ==
    get_balance(T, Addr1) + get_balance(T, Addr2) + get_balance(T, Addr3)
      + get_balance(T, Addr4)

\* C25: while the application runs, whatever transactions were handed to
\* the processor, the balances add up to the seeded total and none is
\* negative.
C25_BalancesConserved ==
    running =>
        /\ total_balance(Mem) = Len(INITIAL_BALANCES) * SeedBalance
        /\ \A a \in { Addr1, Addr2, Addr3, Addr4 } : get_balance(Mem, a) >= 0

\* The node of hash h as the tree finds it: in the node cache, else in the
\* nodes namespace of the database; NoNode when it is in neither.
node_of(h) ==
    IF h = None THEN NoNode
    ELSE IF h \in DOMAIN nodes_cache THEN nodes_cache[h]
    ELSE get_node(db, h)

\* C26: every entry of the hanging map names a node that exists, in the
\* node cache or in the database, and that still awaits a sibling: it is
\* the root, or its parent exists and has no right child.
C26_HangingAwaitsSibling ==
    \A level \in DOMAIN hanging_nodes :
        /\ node_of(hanging_nodes[level]) # NoNode
        /\ \/ hanging_nodes[level] = root_hash
           \/ /\ node_of(node_of(hanging_nodes[level]).parent) # NoNode
              /\ node_of(node_of(hanging_nodes[level]).parent).right = None

\* Whether the node of hash h, when it exists, is the root without a parent,
\* or names as its parent an existing node that has h as its left or right
\* child, and so on for that parent up to the root.
RECURSIVE linked_up(_, _)
linked_up(h, fuel) ==
    IF fuel = 0 \/ node_of(h) = NoNode THEN TRUE
    ELSE IF h = root_hash THEN node_of(h).parent = None
    ELSE /\ node_of(h).parent # None
         /\ node_of(node_of(h).parent) # NoNode
         /\ \/ node_of(node_of(h).parent).left = h
            \/ node_of(node_of(h).parent).right = h
         /\ linked_up(node_of(h).parent, fuel - 1)

\* C27: every node of the tree other than the root, from the leaf of each
\* key upwards, has a parent field that names an existing node whose left
\* or right child is the node's current hash; the root has no parent.
C27_ParentLinks ==
    ~closed =>
        \A i \in 1..Len(order.now) :
            linked_up(calculate_leaf_hash(order.now[i], get_data(order.now[i])),
                      MaxChain)

\* C28: whenever the tree has a root, the root is the hanging node of level
\* depth, the highest level of the tree.
C28_RootIsTopHanging ==
    root_hash # None =>
        /\ depth \in DOMAIN hanging_nodes
        /\ hanging_nodes[depth] = root_hash

\* The keys for which get_data returns a value in tree T.
held_keys(T) == { k \in { input[1] : input \in PutInputs } : get_data_in(T, k) # None }

\* C29: after every put num_leaves is the number of keys that have a value.
\* A put of a new key that succeeds raises num_leaves by one and changes the
\* root, a put on a key that has a value leaves num_leaves as it was, and a
\* put that fails leaves num_leaves and the set of keys as they were.
C29_LeavesCountKeys ==
    [][ (last_op'.op = "put" /\ last_op'.key # << >> /\ last_op'.data # << >>) =>
          /\ num_leaves' = Cardinality(held_keys(Mem'))
          /\ IF last_op'.err # ""
             THEN num_leaves' = num_leaves /\ held_keys(Mem') = held_keys(Mem)
             ELSE IF last_op'.was = None
             THEN num_leaves' = num_leaves + 1 /\ root_hash' # root_hash
             ELSE num_leaves' = num_leaves ]_vars

\* C30: two entries of different keys that the store holds have different
\* leaf hashes, so that each has a leaf node of its own under its hash.
C30_OneLeafPerEntry ==
    \A k1, k2 \in { input[1] : input \in ConcatInputs } :
        (k1 # k2 /\ get_data(k1) # None /\ get_data(k2) # None) =>
            calculate_leaf_hash(k1, get_data(k1))
              # calculate_leaf_hash(k2, get_data(k2))

\* The hashes of the nodes of database d reachable from the node of hash h
\* through left and right.
RECURSIVE durable_subtree(_, _, _)
durable_subtree(d, h, fuel) ==
    IF h = None \/ fuel = 0 \/ get_node(d, h) = NoNode THEN { }
    ELSE { h } \cup durable_subtree(d, get_node(d, h).left, fuel - 1)
               \cup durable_subtree(d, get_node(d, h).right, fuel - 1)

\* C31: after every flush, every record of the nodes namespace is stored
\* under the hash of a node reachable from the root that the metadata
\* names: no record is left under a hash a node no longer has.
C31_NoStaleNodeRecords ==
    (last_op.op = "flush" /\ last_op.err = "") =>
        DOMAIN db.nodes
          \subseteq { Hex(h) : h \in durable_subtree(
                          db, get_metadata(db.metadata.rootHash), MaxChain) }

\* C32: a put, a revert, get_data, contains_key and
\* get_root_hash_saved_on_disk leave the three namespaces of the database
\* as they were, so that the root saved on disk stays the one last flushed
\* while the root of the tree moves; a read changes nothing of the tree
\* either, and a flush on a store without unsaved changes changes neither
\* the database nor the tree.
C32_DurableFrame ==
    [][ /\ last_op'.op \in { "put", "revert", "read" } =>
              /\ db' = db
              /\ get_root_hash_saved_on_disk(Mem')
                   = get_root_hash_saved_on_disk(Mem)
        /\ last_op'.op = "read" => UNCHANGED storeVars
        /\ (last_op'.op = "flush" /\ ~has_unsaved_changes) =>
              UNCHANGED storeVars ]_vars

\* A put has moved the root of the tree away from a root saved on disk.
C32_RootAheadOfDisk ==
    /\ last_op.op = "put"
    /\ last_op.err = ""
    /\ get_root_hash_saved_on_disk(Mem) # None
    /\ root_hash # get_root_hash_saved_on_disk(Mem)
    /\ num_leaves >= 2

\* The depth the metadata of database d holds, 0 when it holds none.
depth_on_disk(d) ==
    IF get_metadata(d.metadata.depth) # None
    THEN UnpackI(get_metadata(d.metadata.depth)) ELSE 0

\* C33 as stated: no put, flush or revert makes depth smaller than it was.
C33_DepthNeverDecreases ==
    [][ last_op'.op \in { "put", "flush", "revert" } => depth' >= depth ]_vars

\* C33: no put and no flush makes depth smaller than it was, and the depth
\* in the database never decreases; a revert of unsaved changes sets depth
\* to the depth in the database, which is at most the depth before it.
C33_DepthMonotonicUpToRevert ==
    [][ /\ last_op'.op \in { "put", "flush" } => depth' >= depth
        /\ last_op'.op \in { "put", "flush", "revert" } =>
              /\ depth_on_disk(db') >= depth_on_disk(db)
              /\ depth_on_disk(db') <= depth'
        /\ (last_op'.op = "revert" /\ has_unsaved_changes) =>
              depth' = depth_on_disk(db) ]_vars

\* A put has raised depth above the depth in the database of a store that
\* was flushed before: a revert from here lowers depth.
C33_DepthAheadOfDisk ==
    /\ last_op.op = "put"
    /\ last_op.err = ""
    /\ get_root_hash_saved_on_disk(Mem) # None
    /\ depth > depth_on_disk(db)

\* C34: a consensus round asks at most as many peers as are configured and
\* goes on only while matches is below the current quorum.  When it has
\* ended it has one of three outcomes: no local root, with no peer asked,
\* nothing recorded and no revert; commit, with the local root recorded for
\* the block and no revert; or revert, after every peer was asked, with no
\* root recorded for the block.
C34_RoundOutcome ==
    /\ round.asked <= peers
    /\ round.pc = "loop" => round.matches < round.quorum
    /\ (/\ round.pc = "done"
        /\ last_op.op \in { "round_start", "peer", "round_end" }
        /\ round.outcome # "error") =>
          \/ /\ round.outcome = "no_root"
             /\ round.asked = 0
             /\ ~round.revert_called
             /\ get_block_root_hash(Mem, round.block_number) = None
          \/ /\ round.outcome = "commit"
             /\ round.err = ""
             /\ round.matches >= round.quorum
             /\ ~round.revert_called
             /\ get_block_root_hash(Mem, round.block_number) = round.local_root
          \/ /\ round.outcome = "revert"
             /\ round.asked = peers
             /\ round.matches < round.quorum
             /\ round.revert_called
             /\ get_block_root_hash(Mem, round.block_number) = None

\* C37: when set_last_checked_block, the read of the root or
\* set_block_root_hash has raised a store error in the step for a block, the
\* step has called revert_unsaved_changes, no root is recorded for the block
\* and the tree holds no unsaved change.
C37_StoreErrorReverts ==
    (/\ round.pc = "done"
     /\ round.err # ""
     /\ last_op.op \in { "round_start", "peer" }) =>
        /\ round.revert_called
        /\ get_block_root_hash(Mem, round.block_number) = None
        /\ ~has_unsaved_changes

\* C39: a start of the application subscribes from the larger of the last
\* checked block and 1, and a start on a store that already holds balances
\* leaves every balance as the last shutdown wrote it: balances changed by
\* transactions are not set back to their seed.
C39_StartKeepsBalances ==
    [][ (last_op'.op = "run" /\ last_op'.err = "") =>
          /\ latest_checked_block'
               = IF get_last_checked_block(Mem') > 1
                 THEN get_last_checked_block(Mem') ELSE 1
          /\ get_root_hash_saved_on_disk(Mem) # None =>
                \A a \in { Addr1, Addr2, Addr3, Addr4 } :
                    get_balance(Mem', a) = get_balance(reloaded(Mem), a) ]_vars

\* C35: while a round is between its read of the local root and its commit
\* or revert, no transaction changes the store.
C35_RoundIsCriticalSection ==
    [][ (round.pc = "loop" /\ last_op'.op = "txn") =>
          UNCHANGED << root_hash, num_leaves, depth, hanging_nodes,
                       nodes_cache, key_data_cache, has_unsaved_changes >> ]_vars

=============================================================================
